---- MODULE Spec2Model ----
(***************************************************************************)
(* TMC2209 UART driver: datagram codec, response reader and the register   *)
(* transactions of Tmc2209 (blocking and async), modelled as a state       *)
(* machine whose steps are the driver's transport calls.                   *)
(***************************************************************************)
EXTENDS Integers, Sequences, FiniteSets, TLC

(***************************************************************************)
(* Bytes and bit operations on u8                                          *)
(***************************************************************************)
Byte == 0..255

Pow2(i) == CASE i = 0 -> 1 [] i = 1 -> 2 [] i = 2 -> 4 [] i = 3 -> 8
             [] i = 4 -> 16 [] i = 5 -> 32 [] i = 6 -> 64 [] i = 7 -> 128

Bit(x, i) == (x \div Pow2(i)) % 2

BitAnd(a, b) ==
    Bit(a, 0) * Bit(b, 0) + 2 * (Bit(a, 1) * Bit(b, 1))
    + 4 * (Bit(a, 2) * Bit(b, 2)) + 8 * (Bit(a, 3) * Bit(b, 3))
    + 16 * (Bit(a, 4) * Bit(b, 4)) + 32 * (Bit(a, 5) * Bit(b, 5))
    + 64 * (Bit(a, 6) * Bit(b, 6)) + 128 * (Bit(a, 7) * Bit(b, 7))

BitXor(a, b) == a + b - 2 * BitAnd(a, b)

BitOr(a, b) == a + b - BitAnd(a, b)

Min(a, b) == IF a < b THEN a ELSE b

(***************************************************************************)
(* crc: the checksum oracle (crc::compute, crc::verify).  CRC8 with        *)
(* polynomial x^8 + x^2 + x + 1, each byte taken least significant bit     *)
(* first, initial value 0.                                                 *)
(***************************************************************************)
CRC_POLY == 7

\* One bit into the running checksum.
crc_bit(crc, bit) ==
    LET shifted == (crc * 2) % 256
    IN  IF (crc \div 128) # bit THEN BitXor(shifted, CRC_POLY) ELSE shifted

CrcBit == [c \in Byte |-> [b \in 0..1 |-> crc_bit(c, b)]]

\* One byte into the running checksum, least significant bit first.
RECURSIVE crc_bits(_, _, _)
crc_bits(crc, byte, i) ==
    IF i > 7 THEN crc
    ELSE crc_bits(CrcBit[crc][Bit(byte, i)], byte, i + 1)

CrcByte == [c \in Byte |-> [b \in Byte |-> crc_bits(c, b, 0)]]

crc_byte(crc, byte) == CrcByte[crc][byte]

\* The running checksum is a u8 at every byte.
RECURSIVE crc_from(_, _, _)
crc_from(crc, bytes, i) ==
    IF i > Len(bytes) THEN crc
    ELSE LET rest(next) == IF next \in Byte THEN crc_from(next, bytes, i + 1) ELSE next
         IN  rest(crc_byte(crc, bytes[i]))

compute(bytes) == crc_from(0, bytes, 1)

verify(bytes) ==
    /\ Len(bytes) >= 1
    /\ compute(SubSeq(bytes, 1, Len(bytes) - 1)) = bytes[Len(bytes)]

(***************************************************************************)
(* datagram.rs: constants and the three datagrams                          *)
(***************************************************************************)
SYNC == 5
MASTER_ADDR == 255
WRITE_BIT == 128
ADDRESS_MASK == 127
ReadRequest_LEN == 4
WriteRequest_LEN == 8
ReadResponse_LEN == 8

\* A u32 is held as its two 16-bit halves: the value is hi * 65536 + lo.
U32(hi, lo) == [hi |-> hi, lo |-> lo]

\* u32::to_be_bytes / u32::from_be_bytes
to_be_bytes(v) ==
    << v.hi \div 256, v.hi % 256, v.lo \div 256, v.lo % 256 >>

from_be_bytes(b) == U32(b[1] * 256 + b[2], b[3] * 256 + b[4])

\* ReadRequest::new(slave_addr, reg_addr: Address): the address is an enum code.
ReadRequest_new(slave, reg) ==
    LET b == << SYNC, slave, reg >> IN b \o << compute(b) >>

\* from_raw_addr passing the register byte on as it is.
ReadRequest_from_raw_addr_unmasked(slave, reg) ==
    LET b == << SYNC, slave, reg >> IN b \o << compute(b) >>

\* ReadRequest::from_raw_addr(slave_addr, reg_addr: u8)
ReadRequest_from_raw_addr(slave, reg) ==
    LET b == << SYNC, slave, BitAnd(reg, ADDRESS_MASK) >> IN b \o << compute(b) >>

\* from_raw laying the data out least significant byte first.
WriteRequest_from_raw_le(slave, reg, v) ==
    LET b == << SYNC, slave, BitOr(BitAnd(reg, ADDRESS_MASK), WRITE_BIT),
                v.lo % 256, v.lo \div 256, v.hi % 256, v.hi \div 256 >>
    IN  b \o << compute(b) >>

\* WriteRequest::from_raw(slave_addr, reg_addr: u8, data: u32)
WriteRequest_from_raw(slave, reg, v) ==
    LET b == << SYNC, slave, BitOr(BitAnd(reg, ADDRESS_MASK), WRITE_BIT) >>
                 \o to_be_bytes(v)
    IN  b \o << compute(b) >>

\* WriteRequest::new(slave_addr, reg_addr: Address, data)
WriteRequest_new(slave, reg, v) == WriteRequest_from_raw(slave, reg, v)

\* ReadRequest::slave_addr, ReadRequest::reg_addr
ReadRequest_slave_addr(req) == req[2]
ReadRequest_reg_addr(req) == req[3]

\* WriteRequest::slave_addr, WriteRequest::reg_addr, WriteRequest::data
WriteRequest_slave_addr(req) == req[2]
WriteRequest_reg_addr(req) == BitAnd(req[3], ADDRESS_MASK)
WriteRequest_data(req) == from_be_bytes(SubSeq(req, 4, 7))

(***************************************************************************)
(* error.rs: Result<T, Error<E>> values                                    *)
(***************************************************************************)
Res(tag, val, expected, actual) ==
    [tag |-> tag, val |-> val, expected |-> expected, actual |-> actual]

Pending == Res("Pending", 0, 0, 0)
Ok(v) == Res("Ok", v, 0, 0)
Uart(e) == Res("Uart", e, 0, 0)
CrcMismatch == Res("CrcMismatch", 0, 0, 0)
InvalidSync == Res("InvalidSync", 0, 0, 0)
InvalidMasterAddress == Res("InvalidMasterAddress", 0, 0, 0)
AddressMismatch(expected, actual) == Res("AddressMismatch", 0, expected, actual)
BufferTooSmall == Res("BufferTooSmall", 0, 0, 0)
NoResponse == Res("NoResponse", 0, 0, 0)

\* Option::None
None == Res("None", 0, 0, 0)

(***************************************************************************)
(* registers/mod.rs: enum Address.  A variant is held by its name; as_u8   *)
(* is its discriminant (`as u8`).                                           *)
(***************************************************************************)
Address ==
    {
      "Gconf", "Gstat", "Ifcnt", "Slaveconf", "OtpProg", "OtpRead", "Ioin",
      "FactoryConf", "IholdIrun", "Tpowerdown", "Tstep", "Tpwmthrs",
      "Tcoolthrs", "Vactual", "Sgthrs", "SgResult", "Coolconf", "Mscnt",
      "Mscuract", "Chopconf", "DrvStatus", "Pwmconf", "PwmScale", "PwmAuto" }

\* Address::as_u8 and `addr as u8`: the discriminants of the enum.
as_u8(a) ==
    CASE a = "Gconf" -> 0
      [] a = "Gstat" -> 1
      [] a = "Ifcnt" -> 2
      [] a = "Slaveconf" -> 3
      [] a = "OtpProg" -> 4
      [] a = "OtpRead" -> 5
      [] a = "Ioin" -> 6
      [] a = "FactoryConf" -> 7
      [] a = "IholdIrun" -> 16
      [] a = "Tpowerdown" -> 17
      [] a = "Tstep" -> 18
      [] a = "Tpwmthrs" -> 19
      [] a = "Tcoolthrs" -> 20
      [] a = "Vactual" -> 34
      [] a = "Sgthrs" -> 64
      [] a = "SgResult" -> 65
      [] a = "Coolconf" -> 66
      [] a = "Mscnt" -> 106
      [] a = "Mscuract" -> 107
      [] a = "Chopconf" -> 108
      [] a = "DrvStatus" -> 111
      [] a = "Pwmconf" -> 112
      [] a = "PwmScale" -> 113
      [] a = "PwmAuto" -> 114

Some(v) == Res("Some", v, 0, 0)

\* from_u8 ignoring bit 7 of the byte.
from_u8_masking(value) ==
    IF \E a \in Address : as_u8(a) = value % 128
    THEN Some(CHOOSE a \in Address : as_u8(a) = value % 128)
    ELSE None

\* Address::from_u8: the match on the byte.
from_u8(value) ==
    CASE value = 0 -> Some("Gconf")
      [] value = 1 -> Some("Gstat")
      [] value = 2 -> Some("Ifcnt")
      [] value = 3 -> Some("Slaveconf")
      [] value = 4 -> Some("OtpProg")
      [] value = 5 -> Some("OtpRead")
      [] value = 6 -> Some("Ioin")
      [] value = 7 -> Some("FactoryConf")
      [] value = 16 -> Some("IholdIrun")
      [] value = 17 -> Some("Tpowerdown")
      [] value = 18 -> Some("Tstep")
      [] value = 19 -> Some("Tpwmthrs")
      [] value = 20 -> Some("Tcoolthrs")
      [] value = 34 -> Some("Vactual")
      [] value = 64 -> Some("Sgthrs")
      [] value = 65 -> Some("SgResult")
      [] value = 66 -> Some("Coolconf")
      [] value = 106 -> Some("Mscnt")
      [] value = 107 -> Some("Mscuract")
      [] value = 108 -> Some("Chopconf")
      [] value = 111 -> Some("DrvStatus")
      [] value = 112 -> Some("Pwmconf")
      [] value = 113 -> Some("PwmScale")
      [] value = 114 -> Some("PwmAuto")
      [] OTHER -> None

\* Address::is_readable
is_readable(a) ==
    a \in {
          "Gconf", "Gstat", "Ifcnt", "OtpRead", "Ioin", "FactoryConf",
          "Tstep", "SgResult", "Mscnt", "Mscuract", "Chopconf",
          "DrvStatus", "Pwmconf", "PwmScale", "PwmAuto" }

\* is_writable as the complement of is_readable.
is_writable_disjoint(a) == ~is_readable(a)

\* Address::is_writable
is_writable(a) ==
    a \in {
          "Gconf", "Gstat", "Slaveconf", "OtpProg", "FactoryConf",
          "IholdIrun", "Tpowerdown", "Tpwmthrs", "Tcoolthrs", "Vactual",
          "Sgthrs", "Coolconf", "Chopconf", "Pwmconf" }

(***************************************************************************)
(* registers/ihold_irun.rs, chopconf.rs, pwmconf.rs: a register is its u32, *)
(* held as U32(hi, lo); shifts and masks are taken on the 16-bit halves.    *)
(***************************************************************************)
\* IholdIrun::DEFAULT = 0x00071703 and IholdIrun::new
IholdIrun_DEFAULT == U32(7, 5891)
IholdIrun_new == IholdIrun_DEFAULT

\* self.0 & 0x1F, (self.0 >> 8) & 0x1F, (self.0 >> 16) & 0x0F
IholdIrun_ihold(r) == (r.lo % 32)
IholdIrun_irun(r) == ((r.lo \div 256) % 32)
IholdIrun_iholddelay(r) == (r.hi % 16)

IholdIrun_set_ihold(r, value) ==
    [r EXCEPT !.lo = (r.lo - (r.lo % 32)) + (value % 32)]
IholdIrun_set_irun(r, value) ==
    [r EXCEPT !.lo = (r.lo - ((r.lo \div 256) % 32) * 256) + (value % 32) * 256]
IholdIrun_set_iholddelay(r, value) ==
    [r EXCEPT !.hi = (r.hi - (r.hi % 16)) + (value % 16)]

\* Chopconf::DEFAULT = 0x10000053 and Chopconf::new
Chopconf_DEFAULT == U32(4096, 83)
Chopconf_new == Chopconf_DEFAULT

\* self.0 & 0x0F, (self.0 >> 4) & 0x07, (self.0 >> 7) & 0x0F,
\* (self.0 >> 15) & 0x03, (self.0 >> 24) & 0x0F
Chopconf_toff(r) == (r.lo % 16)
Chopconf_hstrt(r) == ((r.lo \div 16) % 8)
Chopconf_hend(r) == ((r.lo \div 128) % 16)
Chopconf_tbl(r) == (r.lo \div 32768) + 2 * (r.hi % 2)
Chopconf_mres(r) == ((r.hi \div 256) % 16)

Chopconf_set_toff(r, value) ==
    [r EXCEPT !.lo = (r.lo - (r.lo % 16)) + (value % 16)]
Chopconf_set_hstrt(r, value) ==
    [r EXCEPT !.lo = (r.lo - ((r.lo \div 16) % 8) * 16) + (value % 8) * 16]
Chopconf_set_hend(r, value) ==
    [r EXCEPT !.lo = (r.lo - ((r.lo \div 128) % 16) * 128) + (value % 16) * 128]
Chopconf_set_tbl(r, value) ==
    [r EXCEPT !.lo = (r.lo % 32768) + (value % 2) * 32768,
              !.hi = (r.hi - (r.hi % 2)) + ((value \div 2) % 2)]
Chopconf_set_mres(r, value) ==
    [r EXCEPT !.hi = (r.hi - ((r.hi \div 256) % 16) * 256) + (value % 16) * 256]

\* Pwmconf::DEFAULT = 0xC10D0024 and Pwmconf::new
Pwmconf_DEFAULT == U32(49421, 36)
Pwmconf_new == Pwmconf_DEFAULT

\* self.0 & 0xFF, (self.0 >> 8) & 0xFF, (self.0 >> 16) & 0x03,
\* (self.0 >> 18) & 1 != 0, (self.0 >> 19) & 1 != 0
Pwmconf_pwm_ofs(r) == (r.lo % 256)
Pwmconf_pwm_grad(r) == ((r.lo \div 256) % 256)
Pwmconf_pwm_freq(r) == (r.hi % 4)
Pwmconf_pwm_autoscale(r) == ((r.hi \div 4) % 2) # 0
Pwmconf_pwm_autograd(r) == ((r.hi \div 8) % 2) # 0

Pwmconf_set_pwm_ofs(r, value) ==
    [r EXCEPT !.lo = (r.lo - (r.lo % 256)) + value]
Pwmconf_set_pwm_grad(r, value) ==
    [r EXCEPT !.lo = (r.lo % 256) + value * 256]
Pwmconf_set_pwm_freq(r, value) ==
    [r EXCEPT !.hi = (r.hi - (r.hi % 4)) + (value % 4)]

\* Chopconf::set_vsense (bit 17) and Chopconf::set_intpol (bit 28)
Chopconf_set_vsense(r, value) ==
    [r EXCEPT !.hi = (r.hi - ((r.hi \div 2) % 2) * 2) + (IF value THEN 2 ELSE 0)]
Chopconf_set_intpol(r, value) ==
    [r EXCEPT !.hi = (r.hi - ((r.hi \div 4096) % 2) * 4096)
                     + (IF value THEN 4096 ELSE 0)]

\* registers/mod.rs: enum MicrostepResolution and to_mres (`self as u8`)
MicrostepResolution == << "M256", "M128", "M64", "M32", "M16", "M8", "M4", "M2", "M1" >>

to_mres(res) == CHOOSE i \in 0..8 : MicrostepResolution[i + 1] = res

Chopconf_set_microstep_resolution(r, res) == Chopconf_set_mres(r, to_mres(res))

\* registers/gconf.rs: Gconf::set_en_spreadcycle (bit 2), and
\* Gconf::set_diag0_stall, which clears bits 4 and 5 when given true and
\* does nothing when given false.
Gconf_set_en_spreadcycle(r, value) ==
    [r EXCEPT !.lo = (r.lo - ((r.lo \div 4) % 2) * 4) + (IF value THEN 4 ELSE 0)]
Gconf_set_diag0_stall(r, value) ==
    IF value THEN [r EXCEPT !.lo = r.lo - ((r.lo \div 16) % 4) * 16] ELSE r

\* Pwmconf::set_pwm_autoscale (bit 18) and Pwmconf::set_pwm_autograd (bit 19)
Pwmconf_set_pwm_autoscale(r, value) ==
    [r EXCEPT !.hi = (r.hi - ((r.hi \div 4) % 2) * 4) + (IF value THEN 4 ELSE 0)]
Pwmconf_set_pwm_autograd(r, value) ==
    [r EXCEPT !.hi = (r.hi - ((r.hi \div 8) % 2) * 8) + (IF value THEN 8 ELSE 0)]

\* registers/sgthrs.rs: Sgthrs::new and Sgthrs::set_threshold
Sgthrs_new == U32(0, 0)
Sgthrs_set_threshold(r, value) ==
    [r EXCEPT !.lo = (r.lo - (r.lo % 256)) + value]

(***************************************************************************)
(* ReadResponse                                                            *)
(***************************************************************************)
\* validate without the checksum.
validate_unsummed(bytes) ==
    IF bytes[1] # SYNC THEN InvalidSync
    ELSE IF bytes[2] # MASTER_ADDR THEN InvalidMasterAddress
    ELSE Ok(0)

\* validate checking the CRC before the framing bytes.
validate_checksum_first(bytes) ==
    IF ~verify(bytes) THEN CrcMismatch
    ELSE IF bytes[1] # SYNC THEN InvalidSync
    ELSE IF bytes[2] # MASTER_ADDR THEN InvalidMasterAddress
    ELSE Ok(0)

\* validate looking at the sync byte only.
validate_sync_only(bytes) ==
    IF bytes[1] # SYNC THEN InvalidSync ELSE Ok(0)

\* ReadResponse::validate: sync, then master address, then CRC.
validate(bytes) ==
    IF bytes[1] # SYNC THEN InvalidSync
    ELSE IF bytes[2] # MASTER_ADDR THEN InvalidMasterAddress
    ELSE IF ~verify(bytes) THEN CrcMismatch
    ELSE Ok(0)

\* from_bytes without validation.
from_bytes_unvalidated(bytes) == Ok(bytes)

\* ReadResponse::from_bytes: Ok carries the response (its 8 bytes).
from_bytes(bytes) ==
    LET checked(v) == IF v.tag = "Ok" THEN Ok(bytes) ELSE v
    IN  checked(validate(bytes))

\* from_slice decoding the last 8 bytes of the slice.
from_slice_last(slice) ==
    IF Len(slice) < ReadResponse_LEN THEN BufferTooSmall
    ELSE from_bytes(SubSeq(slice, Len(slice) - ReadResponse_LEN + 1, Len(slice)))

\* ReadResponse::from_slice
from_slice(slice) ==
    IF Len(slice) < ReadResponse_LEN THEN BufferTooSmall
    ELSE from_bytes(SubSeq(slice, 1, ReadResponse_LEN))

\* The number of leading elements of the slice that from_slice reads: none
\* when it returns early, &slice[..LEN] otherwise.
from_slice_taken(slice) ==
    IF Len(slice) < ReadResponse_LEN THEN 0 ELSE ReadResponse_LEN

\* ReadResponse::crc_valid
crc_valid(response) == verify(response)

\* ReadResponse::address
address(response) == from_u8(response[3])

\* ReadResponse::reg_addr and ReadResponse::data
reg_addr(response) == response[3]
data(response) == from_be_bytes(SubSeq(response, 4, 7))

(***************************************************************************)
(* ResponseReader                                                          *)
(***************************************************************************)
ZeroBuffer == [i \in 1..ReadResponse_LEN |-> 0]

\* ResponseReader::new (Default)
ResponseReader_new == [index |-> 0, buffer |-> ZeroBuffer]

\* reset leaving the cursor where it is.
reset_keeping(rd) == rd

\* ResponseReader::reset
reset(rd) == [rd EXCEPT !.index = 0]

\* copy_from_slice of src into buffer at 0-based offset `at`
CopyInto(buffer, at, src) ==
    [i \in 1..ReadResponse_LEN |->
        IF i > at /\ i <= at + Len(src) THEN src[i - at] ELSE buffer[i]]

\* ResponseReader::feed: the loop, from the reader state and the unread input.
RECURSIVE feed_loop(_, _, _)
feed_loop(rd, remaining, consumed) ==
    IF rd.index = 0 THEN
        IF remaining = << >> THEN
            [reader |-> rd, consumed |-> consumed, result |-> None]
        ELSE IF Head(remaining) = SYNC THEN
            feed_loop([index |-> 1, buffer |-> [rd.buffer EXCEPT ![1] = SYNC]],
                      Tail(remaining), consumed + 1)
        ELSE
            feed_loop(rd, Tail(remaining), consumed + 1)
    ELSE IF rd.index = 1 THEN
        IF remaining = << >> THEN
            [reader |-> rd, consumed |-> consumed, result |-> None]
        ELSE IF Head(remaining) = MASTER_ADDR THEN
            feed_loop([index |-> 2, buffer |-> [rd.buffer EXCEPT ![2] = MASTER_ADDR]],
                      Tail(remaining), consumed + 1)
        ELSE
            feed_loop([rd EXCEPT !.index = 0], remaining, consumed)
    ELSE
        LET needed == ReadResponse_LEN - rd.index
            available == Min(Len(remaining), needed)
            buffer == CopyInto(rd.buffer, rd.index, SubSeq(remaining, 1, available))
            index == rd.index + available
        IN  IF index = ReadResponse_LEN THEN
                [reader |-> [index |-> 0, buffer |-> buffer],
                 consumed |-> consumed + available,
                 result |-> from_bytes(buffer)]
            ELSE
                [reader |-> [index |-> index, buffer |-> buffer],
                 consumed |-> consumed + available,
                 result |-> None]

\* feed keeping a skipped byte in the first cell of the buffer.
feed_storing(rd, bytes) ==
    IF rd.index = 0 /\ bytes # << >> /\ Head(bytes) # SYNC
    THEN feed_loop([rd EXCEPT !.buffer[1] = Head(bytes)], bytes, 0)
    ELSE feed_loop(rd, bytes, 0)

\* feed skipping the byte that shows a sync byte of an earlier call false.
feed_dropping(rd, bytes) ==
    IF rd.index = 1 /\ bytes # << >> /\ Head(bytes) # MASTER_ADDR
    THEN feed_loop(reset(rd), Tail(bytes), 1)
    ELSE feed_loop(rd, bytes, 0)

\* feed starting each call at cursor 0.
feed_forgetting(rd, bytes) == feed_loop(reset(rd), bytes, 0)

\* feed giving up the partial frame when called with no input.
feed_rewinding(rd, bytes) ==
    IF bytes = << >>
    THEN [reader |-> reset(rd), consumed |-> 0, result |-> None]
    ELSE feed_loop(rd, bytes, 0)

\* feed trying again on the rest of its input when the decode fails.
feed_retrying(rd, bytes) ==
    LET retried(r) ==
            IF r.result.tag \notin {"None", "Ok"}
            THEN feed_loop(r.reader, SubSeq(bytes, r.consumed + 1, Len(bytes)),
                           r.consumed)
            ELSE r
    IN  retried(feed_loop(rd, bytes, 0))

\* feed taking a sync byte met inside a frame for the start of a frame.
feed_restarting(rd, bytes) ==
    IF rd.index >= 2 /\ bytes # << >> /\ Head(bytes) = SYNC
    THEN feed_loop(reset(rd), bytes, 0)
    ELSE feed_loop(rd, bytes, 0)

\* feed taking whatever byte follows a sync byte of an earlier call as the
\* second byte of the frame.
feed_lenient(rd, bytes) ==
    IF rd.index = 1 /\ bytes # << >>
    THEN feed_loop([index |-> 2, buffer |-> [rd.buffer EXCEPT ![2] = Head(bytes)]],
                   Tail(bytes), 1)
    ELSE feed_loop(rd, bytes, 0)

\* feed reporting its whole input consumed when it returns a result.
feed_draining(rd, bytes) ==
    LET drained(r) ==
            IF r.result.tag # "None" THEN [r EXCEPT !.consumed = Len(bytes)] ELSE r
    IN  drained(feed_loop(rd, bytes, 0))

feed(rd, bytes) == feed_loop(rd, bytes, 0)

(***************************************************************************)
(* driver.rs: Tmc2209.  `self` is the driver object with the frame of the   *)
(* transaction in progress: [slave_addr, reader, task].  A handler is an   *)
(* operator from (self, outcome of the transport call just made) to the    *)
(* next self; task.pc names the transport call the handler waits on.       *)
(***************************************************************************)
IdleTask ==
    [fn |-> "none", pc |-> "idle", addr |-> 0, data |-> U32(0, 0),
     request |-> << >>, n |-> 0, buf |-> << >>, result |-> Pending]

SLAVE_ADDR_MAX == 3

\* Tmc2209::new(uart, slave_addr), for slave_addr <= 3
Tmc2209_new(slave) ==
    [slave_addr |-> slave, reader |-> ResponseReader_new, task |-> IdleTask]

\* Tmc2209::read_request::<R> and Tmc2209::write_request
read_request(self, R) == ReadRequest_new(self.slave_addr, R)
write_request(self, R, reg) == WriteRequest_new(self.slave_addr, R, reg)

\* Outcomes of a transport call: Err(e), or Ok with the bytes a read delivered.
NoCall == [kind |-> "None", e |-> 0, bytes |-> << >>]
IoOk(bytes) == [kind |-> "Ok", e |-> 0, bytes |-> bytes]
IoErr(e) == [kind |-> "Err", e |-> e, bytes |-> << >>]

\* `return r` / `?`: the handler's locals are dropped.
Ret(self, r) ==
    [self EXCEPT !.task.pc = "returned", !.task.result = r, !.task.n = 0,
                 !.task.buf = << >>]

Goto(self, pc) == [self EXCEPT !.task.pc = pc]

\* `let mut echo_buf = [0u8; n]` followed by the first pass of read_exact
Alloc(self, pc, n) == [self EXCEPT !.task.pc = pc, !.task.n = n, !.task.buf = << >>]

(***************************************************************************)
(* Blocking API                                                            *)
(***************************************************************************)
\* read_exact filling the buffer from its start on every pass.
read_exact_refilling(buf, n, o) ==
    IF o.kind = "Err" THEN [done |-> TRUE, result |-> Uart(o.e), buf |-> buf]
    ELSE IF Len(o.bytes) = 0 THEN [done |-> TRUE, result |-> NoResponse, buf |-> buf]
    ELSE IF Len(o.bytes) < n
         THEN [done |-> FALSE, result |-> Pending, buf |-> o.bytes]
         ELSE [done |-> TRUE, result |-> Ok(0), buf |-> o.bytes]

\* read_exact trying again after a read of 0 bytes.
read_exact_retrying(buf, n, o) ==
    IF o.kind = "Ok" /\ Len(o.bytes) = 0
    THEN [done |-> FALSE, result |-> Pending, buf |-> buf]
    ELSE IF o.kind = "Err" THEN [done |-> TRUE, result |-> Uart(o.e), buf |-> buf]
    ELSE IF Len(buf \o o.bytes) < n
         THEN [done |-> FALSE, result |-> Pending, buf |-> buf \o o.bytes]
         ELSE [done |-> TRUE, result |-> Ok(0), buf |-> buf \o o.bytes]

\* Tmc2209::read_exact: one pass of the loop, after uart.read returned `o`
\* for the rest of a buffer of n bytes of which buf are filled.
read_exact(buf, n, o) ==
    IF o.kind = "Err" THEN [done |-> TRUE, result |-> Uart(o.e), buf |-> buf]
    ELSE IF Len(o.bytes) = 0 THEN [done |-> TRUE, result |-> NoResponse, buf |-> buf]
    ELSE LET filled == buf \o o.bytes
         IN  IF Len(filled) < n
             THEN [done |-> FALSE, result |-> Pending, buf |-> filled]
             ELSE [done |-> TRUE, result |-> Ok(0), buf |-> filled]

\* read_response entered without the reset.
read_response_enter_stale(self) == Alloc(self, "response", 8)

\* Tmc2209::read_response, entry: the reader is reset before the first read.
read_response_enter(self) ==
    Alloc([self EXCEPT !.reader = reset(self.reader)], "response", 8)

\* read_response decoding the 8 bytes with from_bytes, without the parser.
read_response_decoding(rd, buf, o) ==
    LET r == read_exact(buf, 8, o)
    IN  IF ~r.done \/ r.result.tag # "Ok"
        THEN [done |-> r.done, result |-> r.result, buf |-> r.buf, reader |-> rd]
        ELSE [done |-> TRUE, result |-> from_bytes(r.buf), buf |-> r.buf,
              reader |-> rd]

\* Tmc2209::read_response, after uart.read returned `o`.
read_response(rd, buf, o) ==
    LET r == read_exact(buf, 8, o)
        parsed(fed) ==
            [done |-> TRUE,
             result |-> IF fed.result.tag = "None" THEN NoResponse ELSE fed.result,
             buf |-> r.buf, reader |-> fed.reader]
    IN  IF ~r.done \/ r.result.tag # "Ok"
        THEN [done |-> r.done, result |-> r.result, buf |-> r.buf, reader |-> rd]
        ELSE parsed(feed(rd, r.buf))

\* Tmc2209::read_register::<R>; task.addr is R::ADDRESS.
read_register(self, o) ==
    LET t == self.task IN
    CASE t.pc = "start" ->
            [self EXCEPT !.task.request = read_request(self, t.addr),
                         !.task.pc = "write_all"]
      [] t.pc = "write_all" ->
            IF o.kind = "Err" THEN Ret(self, Uart(o.e)) ELSE Goto(self, "flush")
      [] t.pc = "flush" ->
            IF o.kind = "Err" THEN Ret(self, Uart(o.e)) ELSE Alloc(self, "echo", 4)
      [] t.pc = "echo" ->
            LET r == read_exact(t.buf, t.n, o)
            IN  IF ~r.done THEN [self EXCEPT !.task.buf = r.buf]
                ELSE IF r.result.tag # "Ok" THEN Ret(self, r.result)
                ELSE read_response_enter(self)
      [] t.pc = "response" ->
            LET responded(r) ==
                    LET fed == [self EXCEPT !.reader = r.reader]
                    IN  IF ~r.done THEN [self EXCEPT !.task.buf = r.buf]
                    ELSE IF r.result.tag # "Ok" THEN Ret(fed, r.result)
                    ELSE LET response == r.result.val
                             expected_addr == t.addr
                         IN  IF reg_addr(response) # expected_addr
                             THEN Ret(fed, AddressMismatch(expected_addr, reg_addr(response)))
                             ELSE Ret(fed, Ok(data(response)))
            IN  responded(read_response(self.reader, t.buf, o))

\* Tmc2209::write_register::<R>; task.addr is R::ADDRESS, task.data the value.
write_register(self, o) ==
    LET t == self.task IN
    CASE t.pc = "start" ->
            [self EXCEPT !.task.request = write_request(self, t.addr, t.data),
                         !.task.pc = "write_all"]
      [] t.pc = "write_all" ->
            IF o.kind = "Err" THEN Ret(self, Uart(o.e)) ELSE Goto(self, "flush")
      [] t.pc = "flush" ->
            IF o.kind = "Err" THEN Ret(self, Uart(o.e)) ELSE Alloc(self, "echo", 8)
      [] t.pc = "echo" ->
            LET r == read_exact(t.buf, t.n, o)
            IN  IF ~r.done THEN [self EXCEPT !.task.buf = r.buf]
                ELSE IF r.result.tag # "Ok" THEN Ret(self, r.result)
                ELSE Ret(self, Ok(0))

\* Tmc2209::read_raw(reg_addr)
read_raw(self, o) ==
    LET t == self.task IN
    CASE t.pc = "start" ->
            [self EXCEPT !.task.request =
                             ReadRequest_from_raw_addr(self.slave_addr, t.addr),
                         !.task.pc = "write_all"]
      [] t.pc = "write_all" ->
            IF o.kind = "Err" THEN Ret(self, Uart(o.e)) ELSE Goto(self, "flush")
      [] t.pc = "flush" ->
            IF o.kind = "Err" THEN Ret(self, Uart(o.e)) ELSE Alloc(self, "echo", 4)
      [] t.pc = "echo" ->
            LET r == read_exact(t.buf, t.n, o)
            IN  IF ~r.done THEN [self EXCEPT !.task.buf = r.buf]
                ELSE IF r.result.tag # "Ok" THEN Ret(self, r.result)
                ELSE read_response_enter(self)
      [] t.pc = "response" ->
            LET responded(r) ==
                    LET fed == [self EXCEPT !.reader = r.reader]
                    IN  IF ~r.done THEN [self EXCEPT !.task.buf = r.buf]
                    ELSE IF r.result.tag # "Ok" THEN Ret(fed, r.result)
                    ELSE Ret(fed, Ok(data(r.result.val)))
            IN  responded(read_response(self.reader, t.buf, o))

\* Tmc2209::write_raw(reg_addr, data)
write_raw(self, o) ==
    LET t == self.task IN
    CASE t.pc = "start" ->
            [self EXCEPT !.task.request =
                             WriteRequest_from_raw(self.slave_addr, t.addr, t.data),
                         !.task.pc = "write_all"]
      [] t.pc = "write_all" ->
            IF o.kind = "Err" THEN Ret(self, Uart(o.e)) ELSE Goto(self, "flush")
      [] t.pc = "flush" ->
            IF o.kind = "Err" THEN Ret(self, Uart(o.e)) ELSE Alloc(self, "echo", 8)
      [] t.pc = "echo" ->
            LET r == read_exact(t.buf, t.n, o)
            IN  IF ~r.done THEN [self EXCEPT !.task.buf = r.buf]
                ELSE IF r.result.tag # "Ok" THEN Ret(self, r.result)
                ELSE Ret(self, Ok(0))

(***************************************************************************)
(* Async API: the same handlers over embedded_io_async; every transport   *)
(* call is an await point and task.pc is where the future is suspended.    *)
(***************************************************************************)
\* read_exact_async keeping only the bytes of the latest read.
read_exact_async_restarting(buf, n, o) ==
    IF o.kind = "Ok" /\ Len(o.bytes) > 0 /\ Len(buf) > 0
    THEN IF Len(o.bytes) < n
         THEN [done |-> FALSE, result |-> Pending, buf |-> o.bytes]
         ELSE [done |-> TRUE, result |-> Ok(0), buf |-> o.bytes]
    ELSE read_exact(buf, n, o)

\* read_exact_async reading on after a read of 0 bytes.
read_exact_async_past_zero(buf, n, o) ==
    IF o.kind = "Ok" /\ Len(o.bytes) = 0
    THEN [done |-> FALSE, result |-> Pending, buf |-> buf]
    ELSE read_exact(buf, n, o)

\* Tmc2209::read_exact_async: one pass of the loop, after uart.read(..).await returned `o`
\* for the rest of a buffer of n bytes of which buf are filled.
read_exact_async(buf, n, o) ==
    IF o.kind = "Err" THEN [done |-> TRUE, result |-> Uart(o.e), buf |-> buf]
    ELSE IF Len(o.bytes) = 0 THEN [done |-> TRUE, result |-> NoResponse, buf |-> buf]
    ELSE LET filled == buf \o o.bytes
         IN  IF Len(filled) < n
             THEN [done |-> FALSE, result |-> Pending, buf |-> filled]
             ELSE [done |-> TRUE, result |-> Ok(0), buf |-> filled]

\* read_response_async entered without the reset.
read_response_enter_async_stale(self) == Alloc(self, "response", 8)

\* Tmc2209::read_response_async, entry: the reader is reset before the first read.
read_response_enter_async(self) ==
    Alloc([self EXCEPT !.reader = reset(self.reader)], "response", 8)

\* read_response_async reporting a transport error as a missing reply.
read_response_async_masking(rd, buf, o) ==
    IF o.kind = "Err"
    THEN [done |-> TRUE, result |-> NoResponse, buf |-> buf, reader |-> rd]
    ELSE read_response(rd, buf, o)

\* Tmc2209::read_response_async, after uart.read(..).await returned `o`.
read_response_async(rd, buf, o) ==
    LET r == read_exact_async(buf, 8, o)
        parsed(fed) ==
            [done |-> TRUE,
             result |-> IF fed.result.tag = "None" THEN NoResponse ELSE fed.result,
             buf |-> r.buf, reader |-> fed.reader]
    IN  IF ~r.done \/ r.result.tag # "Ok"
        THEN [done |-> r.done, result |-> r.result, buf |-> r.buf, reader |-> rd]
        ELSE parsed(feed(rd, r.buf))

\* read_register_async returning whatever valid reply arrived, as the raw
\* read does.
read_register_async_unchecked(self, o) ==
    IF self.task.pc = "start" THEN read_register(self, o) ELSE read_raw(self, o)

\* Tmc2209::read_register_async::<R>; task.addr is R::ADDRESS.
read_register_async(self, o) ==
    LET t == self.task IN
    CASE t.pc = "start" ->
            [self EXCEPT !.task.request = read_request(self, t.addr),
                         !.task.pc = "write_all"]
      [] t.pc = "write_all" ->
            IF o.kind = "Err" THEN Ret(self, Uart(o.e)) ELSE Goto(self, "flush")
      [] t.pc = "flush" ->
            IF o.kind = "Err" THEN Ret(self, Uart(o.e)) ELSE Alloc(self, "echo", 4)
      [] t.pc = "echo" ->
            LET r == read_exact_async(t.buf, t.n, o)
            IN  IF ~r.done THEN [self EXCEPT !.task.buf = r.buf]
                ELSE IF r.result.tag # "Ok" THEN Ret(self, r.result)
                ELSE read_response_enter_async(self)
      [] t.pc = "response" ->
            LET responded(r) ==
                    LET fed == [self EXCEPT !.reader = r.reader]
                    IN  IF ~r.done THEN [self EXCEPT !.task.buf = r.buf]
                    ELSE IF r.result.tag # "Ok" THEN Ret(fed, r.result)
                    ELSE LET response == r.result.val
                             expected_addr == t.addr
                         IN  IF reg_addr(response) # expected_addr
                             THEN Ret(fed, AddressMismatch(expected_addr, reg_addr(response)))
                             ELSE Ret(fed, Ok(data(response)))
            IN  responded(read_response_async(self.reader, t.buf, o))

\* write_register_async comparing the echo with the request.
write_register_async_echo_checked(self, o) ==
    IF /\ self.task.pc = "echo"
       /\ o.kind = "Ok"
       /\ Len(self.task.buf \o o.bytes) = self.task.n
       /\ self.task.buf \o o.bytes # self.task.request
    THEN Ret(self, NoResponse)
    ELSE write_register(self, o)

\* Tmc2209::write_register_async::<R>; task.addr is R::ADDRESS, task.data the value.
write_register_async(self, o) ==
    LET t == self.task IN
    CASE t.pc = "start" ->
            [self EXCEPT !.task.request = write_request(self, t.addr, t.data),
                         !.task.pc = "write_all"]
      [] t.pc = "write_all" ->
            IF o.kind = "Err" THEN Ret(self, Uart(o.e)) ELSE Goto(self, "flush")
      [] t.pc = "flush" ->
            IF o.kind = "Err" THEN Ret(self, Uart(o.e)) ELSE Alloc(self, "echo", 8)
      [] t.pc = "echo" ->
            LET r == read_exact_async(t.buf, t.n, o)
            IN  IF ~r.done THEN [self EXCEPT !.task.buf = r.buf]
                ELSE IF r.result.tag # "Ok" THEN Ret(self, r.result)
                ELSE Ret(self, Ok(0))

\* read_raw_async with the address check of the typed read.
read_raw_async_checked(self, o) ==
    IF self.task.pc = "start" THEN read_raw(self, o) ELSE read_register(self, o)

\* read_raw_async reading the echo as soon as write_all returned, without
\* the flush.
read_raw_async_unflushed(self, o) ==
    IF self.task.pc = "write_all" /\ o.kind # "Err"
    THEN Alloc(self, "echo", 4)
    ELSE read_raw(self, o)

\* Tmc2209::read_raw_async(reg_addr)
read_raw_async(self, o) ==
    LET t == self.task IN
    CASE t.pc = "start" ->
            [self EXCEPT !.task.request =
                             ReadRequest_from_raw_addr(self.slave_addr, t.addr),
                         !.task.pc = "write_all"]
      [] t.pc = "write_all" ->
            IF o.kind = "Err" THEN Ret(self, Uart(o.e)) ELSE Goto(self, "flush")
      [] t.pc = "flush" ->
            IF o.kind = "Err" THEN Ret(self, Uart(o.e)) ELSE Alloc(self, "echo", 4)
      [] t.pc = "echo" ->
            LET r == read_exact_async(t.buf, t.n, o)
            IN  IF ~r.done THEN [self EXCEPT !.task.buf = r.buf]
                ELSE IF r.result.tag # "Ok" THEN Ret(self, r.result)
                ELSE read_response_enter_async(self)
      [] t.pc = "response" ->
            LET responded(r) ==
                    LET fed == [self EXCEPT !.reader = r.reader]
                    IN  IF ~r.done THEN [self EXCEPT !.task.buf = r.buf]
                    ELSE IF r.result.tag # "Ok" THEN Ret(fed, r.result)
                    ELSE Ret(fed, Ok(data(r.result.val)))
            IN  responded(read_response_async(self.reader, t.buf, o))

\* write_raw_async reading an echo of 4 bytes, the length of a read request.
write_raw_async_short_echo(self, o) ==
    IF self.task.pc = "flush" /\ o.kind # "Err"
    THEN Alloc(self, "echo", ReadRequest_LEN)
    ELSE write_raw(self, o)

\* write_raw_async writing the request again when the flush fails.
write_raw_async_retrying(self, o) ==
    IF self.task.pc = "flush" /\ o.kind = "Err"
    THEN Goto(self, "write_all")
    ELSE write_raw(self, o)

\* Tmc2209::write_raw_async(reg_addr, data)
write_raw_async(self, o) ==
    LET t == self.task IN
    CASE t.pc = "start" ->
            [self EXCEPT !.task.request =
                             WriteRequest_from_raw(self.slave_addr, t.addr, t.data),
                         !.task.pc = "write_all"]
      [] t.pc = "write_all" ->
            IF o.kind = "Err" THEN Ret(self, Uart(o.e)) ELSE Goto(self, "flush")
      [] t.pc = "flush" ->
            IF o.kind = "Err" THEN Ret(self, Uart(o.e)) ELSE Alloc(self, "echo", 8)
      [] t.pc = "echo" ->
            LET r == read_exact_async(t.buf, t.n, o)
            IN  IF ~r.done THEN [self EXCEPT !.task.buf = r.buf]
                ELSE IF r.result.tag # "Ok" THEN Ret(self, r.result)
                ELSE Ret(self, Ok(0))

(***************************************************************************)
(* Dispatch: the handler of the running call                               *)
(***************************************************************************)
BlockingFns == {"read_register", "write_register", "read_raw", "write_raw"}
AsyncFns == {"read_register_async", "write_register_async",
             "read_raw_async", "write_raw_async"}
ReadFns == {"read_register", "read_raw", "read_register_async", "read_raw_async"}
WriteFns == (BlockingFns \cup AsyncFns) \ ReadFns
TypedFns == {"read_register", "write_register",
             "read_register_async", "write_register_async"}

AsyncOf(fn) ==
    CASE fn = "read_register" -> "read_register_async"
      [] fn = "write_register" -> "write_register_async"
      [] fn = "read_raw" -> "read_raw_async"
      [] fn = "write_raw" -> "write_raw_async"

Step(self, o) ==
    CASE self.task.fn = "read_register" -> read_register(self, o)
      [] self.task.fn = "write_register" -> write_register(self, o)
      [] self.task.fn = "read_raw" -> read_raw(self, o)
      [] self.task.fn = "write_raw" -> write_raw(self, o)
      [] self.task.fn = "read_register_async" -> read_register_async(self, o)
      [] self.task.fn = "write_register_async" -> write_register_async(self, o)
      [] self.task.fn = "read_raw_async" -> read_raw_async(self, o)
      [] self.task.fn = "write_raw_async" -> write_raw_async(self, o)

\* The caller invokes fn(a, v) on the driver: the handler runs to its first
\* transport call.
Invoke(self, fn, a, v) ==
    Step([self EXCEPT !.task = [IdleTask EXCEPT !.fn = fn, !.pc = "start",
                                                !.addr = a, !.data = v]],
         NoCall)

\* The transport call a suspended handler is waiting on, with its argument:
\* the bytes given to write_all, or the length of the slice given to read.
PendingCall(self) ==
    CASE self.task.pc = "write_all" ->
            [op |-> "write_all", bytes |-> self.task.request, len |-> 0]
      [] self.task.pc = "flush" -> [op |-> "flush", bytes |-> << >>, len |-> 0]
      [] self.task.pc \in {"echo", "response"} ->
            [op |-> "read", bytes |-> << >>, len |-> self.task.n - Len(self.task.buf)]
      [] OTHER -> [op |-> "none", bytes |-> << >>, len |-> 0]

(***************************************************************************)
(* Convenience methods: sequences of typed transactions.  A method is an   *)
(* operator from (its frame, the result of the transaction it awaited) to  *)
(* its next frame; method.pc names the transaction it is suspended in and  *)
(* method.next the transaction it starts.  The async forms have the same   *)
(* body over read_register_async and write_register_async (method.async).  *)
(***************************************************************************)
NoTransaction == [fn |-> "none", addr |-> 0, data |-> U32(0, 0)]

NoLast == [name |-> "none", async |-> FALSE, arg |-> << >>, tag |-> "Pending"]

NoOp ==
    [name |-> "none", async |-> FALSE, arg |-> << >>, pc |-> "idle",
     next |-> NoTransaction, result |-> Pending, log |-> << >>, last |-> NoLast,
     count |-> 0]

\* self.read_register::<R>() and self.write_register(&reg), as called by a
\* method that is then suspended at pc.
ReadRegister(o, pc, R) ==
    [o EXCEPT !.pc = pc,
              !.next = [fn |-> IF o.async THEN "read_register_async"
                               ELSE "read_register",
                        addr |-> as_u8(R), data |-> U32(0, 0)]]

WriteRegister(o, pc, R, reg) ==
    [o EXCEPT !.pc = pc,
              !.next = [fn |-> IF o.async THEN "write_register_async"
                               ELSE "write_register",
                        addr |-> as_u8(R), data |-> reg]]

\* The method returns r: by `?` on an error, or as its last expression.
OpRet(o, r) == [o EXCEPT !.pc = "returned", !.next = NoTransaction, !.result = r]

\* `let mut reg = self.read_register::<R>()?; <setters>; self.write_register(&reg)`
\* where `modified` is reg after the setters.
ReadModifyWrite(o, r, R, modified) ==
    CASE o.pc = "start" -> ReadRegister(o, "read", R)
      [] o.pc = "read" ->
            IF r.tag # "Ok" THEN OpRet(o, r) ELSE WriteRegister(o, "write", R, modified)
      [] o.pc = "write" -> OpRet(o, r)

\* Tmc2209::set_microsteps(resolution) and set_microsteps_async
set_microsteps(o, r) ==
    ReadModifyWrite(o, r, "Chopconf",
                    Chopconf_set_microstep_resolution(r.val, o.arg[1]))

\* set_enabled writing TOFF=3 whenever it enables.
set_enabled_resetting(o, r) ==
    ReadModifyWrite(o, r, "Chopconf",
                    Chopconf_set_toff(r.val, IF o.arg[1] THEN 3 ELSE 0))

\* Tmc2209::set_enabled(enabled) and set_enabled_async
set_enabled(o, r) ==
    ReadModifyWrite(o, r, "Chopconf",
                    IF o.arg[1]
                    THEN IF Chopconf_toff(r.val) = 0
                         THEN Chopconf_set_toff(r.val, 3)
                         ELSE r.val
                    ELSE Chopconf_set_toff(r.val, 0))

\* Tmc2209::enable_stealthchop, enable_spreadcycle and their async forms
enable_stealthchop(o, r) ==
    ReadModifyWrite(o, r, "Gconf", Gconf_set_en_spreadcycle(r.val, FALSE))

enable_spreadcycle(o, r) ==
    ReadModifyWrite(o, r, "Gconf", Gconf_set_en_spreadcycle(r.val, TRUE))

\* Tmc2209::configure_stealthchop(pwm_ofs, pwm_grad, autoscale, autograd)
configure_stealthchop(o, r) ==
    ReadModifyWrite(o, r, "Pwmconf",
        Pwmconf_set_pwm_autograd(
            Pwmconf_set_pwm_autoscale(
                Pwmconf_set_pwm_grad(Pwmconf_set_pwm_ofs(r.val, o.arg[1]), o.arg[2]),
                o.arg[3]),
            o.arg[4]))

\* set_vsense starting from the register's default instead of its value.
set_vsense_from_default(o, r) ==
    ReadModifyWrite(o, r, "Chopconf", Chopconf_set_vsense(Chopconf_new, o.arg[1]))

\* Tmc2209::set_vsense(high_sensitivity)
set_vsense(o, r) ==
    ReadModifyWrite(o, r, "Chopconf", Chopconf_set_vsense(r.val, o.arg[1]))

\* Tmc2209::configure_chopper(toff, hstrt, hend, tbl)
configure_chopper(o, r) ==
    ReadModifyWrite(o, r, "Chopconf",
        Chopconf_set_tbl(
            Chopconf_set_hend(
                Chopconf_set_hstrt(
                    Chopconf_set_toff(r.val, Min(o.arg[1], 15)),
                    Min(o.arg[2], 7)),
                Min(o.arg[3], 15)),
            Min(o.arg[4], 3)))

\* Tmc2209::set_interpolation(enabled)
set_interpolation(o, r) ==
    ReadModifyWrite(o, r, "Chopconf", Chopconf_set_intpol(r.val, o.arg[1]))

\* Tmc2209::set_stall_threshold(threshold)
set_stall_threshold(o, r) ==
    CASE o.pc = "start" ->
            WriteRegister(o, "write", "Sgthrs", Sgthrs_set_threshold(Sgthrs_new, o.arg[1]))
      [] o.pc = "write" -> OpRet(o, r)

\* configure_stall_detection going on to GCONF whatever the write of SGTHRS
\* returned.
configure_stall_detection_regardless(o, r) ==
    CASE o.pc = "start" ->
            WriteRegister(o, "threshold", "Sgthrs",
                          Sgthrs_set_threshold(Sgthrs_new, o.arg[1]))
      [] o.pc = "threshold" -> ReadRegister(o, "read", "Gconf")
      [] o.pc = "read" ->
            IF r.tag # "Ok" THEN OpRet(o, r)
            ELSE WriteRegister(o, "write", "Gconf", Gconf_set_diag0_stall(r.val, TRUE))
      [] o.pc = "write" -> OpRet(o, r)

\* Tmc2209::configure_stall_detection(threshold) and its async form:
\* set_stall_threshold(threshold)?, then GCONF read, changed and written.
configure_stall_detection(o, r) ==
    CASE o.pc = "start" ->
            WriteRegister(o, "threshold", "Sgthrs",
                          Sgthrs_set_threshold(Sgthrs_new, o.arg[1]))
      [] o.pc = "threshold" ->
            IF r.tag # "Ok" THEN OpRet(o, r) ELSE ReadRegister(o, "read", "Gconf")
      [] o.pc = "read" ->
            IF r.tag # "Ok" THEN OpRet(o, r)
            ELSE WriteRegister(o, "write", "Gconf", Gconf_set_diag0_stall(r.val, TRUE))
      [] o.pc = "write" -> OpRet(o, r)

\* The methods that exist in blocking form, and those that also exist in
\* async form.
Methods ==
    {"set_microsteps", "set_enabled", "enable_stealthchop", "enable_spreadcycle",
     "configure_stealthchop", "set_vsense", "configure_chopper",
     "set_interpolation", "set_stall_threshold", "configure_stall_detection"}

AsyncMethods ==
    {"set_microsteps", "set_enabled", "enable_stealthchop", "enable_spreadcycle",
     "configure_stall_detection"}

\* The method of frame o resumed with the result r of the transaction it
\* awaited (Pending when it is entered).
Resume(o, r) ==
    CASE o.name = "set_microsteps" -> set_microsteps(o, r)
      [] o.name = "set_enabled" -> set_enabled(o, r)
      [] o.name = "enable_stealthchop" -> enable_stealthchop(o, r)
      [] o.name = "enable_spreadcycle" -> enable_spreadcycle(o, r)
      [] o.name = "configure_stealthchop" -> configure_stealthchop(o, r)
      [] o.name = "set_vsense" -> set_vsense(o, r)
      [] o.name = "configure_chopper" -> configure_chopper(o, r)
      [] o.name = "set_interpolation" -> set_interpolation(o, r)
      [] o.name = "set_stall_threshold" -> set_stall_threshold(o, r)
      [] o.name = "configure_stall_detection" -> configure_stall_detection(o, r)

(***************************************************************************)
(* The environment: the caller's arguments and the line.  A scenario fixes *)
(* the menus the caller and the transport choose from.                     *)
(***************************************************************************)
MaxUartErr == 2
NumData == 2

\* Register codes of registers/mod.rs used by the scenarios.
GCONF == 0
IHOLD_IRUN == 16
DRV_STATUS == 111

\* A register byte that is no discriminant of Address (0x08).
UNKNOWN_REG == 8

\* 0x00000000, 0x01020304, 0xFFFFFFFF, 0x80000000
DataMenu == << U32(0, 0), U32(258, 772), U32(65535, 65535), U32(32768, 0) >>
DataSet(k) == { DataMenu[i] : i \in 1..Min(k, Len(DataMenu)) }

SlaveArgs(sc) == IF sc = "echo" THEN 0..(SLAVE_ADDR_MAX + 1) ELSE {0, SLAVE_ADDR_MAX + 1}

AddrArgs(sc, fn) ==
    CASE fn \in {"read_register", "read_register_async"} -> {GCONF, DRV_STATUS}
      [] fn \in {"write_register", "write_register_async"} ->
            IF sc = "echo" THEN {GCONF, IHOLD_IRUN} ELSE {GCONF}
      [] fn \in {"read_raw", "read_raw_async"} ->
            IF sc \in {"corrupt", "surplus", "history"} THEN {DRV_STATUS}
            ELSE IF sc = "unknown" THEN {UNKNOWN_REG}
            ELSE {GCONF, DRV_STATUS, DRV_STATUS + 128}
      [] fn \in {"write_raw", "write_raw_async"} ->
            IF sc = "echo" THEN {GCONF, DRV_STATUS, DRV_STATUS + 128}
            ELSE IF sc = "unknown" THEN {UNKNOWN_REG}
            ELSE {DRV_STATUS}

DataArgs(sc, fn) ==
    IF fn \in ReadFns THEN {U32(0, 0)}
    ELSE IF sc = "corrupt" THEN {DataMenu[2]}
    ELSE DataSet(NumData)

\* The device's reply to a read of register a holding d (datagram.rs, ReadResponse).
Frame(a, d) ==
    LET b == << SYNC, MASTER_ADDR, a >> \o to_be_bytes(d) IN b \o << compute(b) >>

Zeros(n) == [i \in 1..n |-> 0]

OtherAddr(a) == IF a = GCONF THEN DRV_STATUS ELSE GCONF

\* Replies that are no valid frame: wrong checksum, one byte late, a false
\* sync before the frame, wrong source address, silence read as zeros.
BadReplies(a) ==
    LET Bad(f) == { [f EXCEPT ![8] = (f[8] + 1) % 256],
                    << 0 >> \o SubSeq(f, 1, 7),
                    << SYNC >> \o SubSeq(f, 1, 7),
                    [f EXCEPT ![2] = 0],
                    Zeros(8) }
    IN  Bad(Frame(a, DataMenu[2]))

Replies(sc, a) ==
    IF sc \in {"echo", "cancel"} THEN { Frame(a, d) : d \in DataSet(NumData) }
    ELSE IF sc \in {"stale", "history"} THEN { Frame(a, DataMenu[2]) } \cup BadReplies(a)
    ELSE IF sc = "corrupt" THEN { Frame(a, DataMenu[2]) }
    ELSE { Frame(b, d) : b \in {a, OtherAddr(a), a + 128}, d \in DataSet(NumData) }
         \cup BadReplies(a)

\* The scenarios in which the transport may fail or deliver in parts.
Faulty(sc) == sc \in {"faults", "surplus", "history"}

\* Echoes other than the request itself: silence, and bytes that would frame
\* a reply.
BadEchoes(req) ==
    IF Len(req) = ReadRequest_LEN
    THEN { Zeros(4), << SYNC, MASTER_ADDR, req[3], 0 >> }
    ELSE { Zeros(8), Frame(BitAnd(req[3], ADDRESS_MASK), DataMenu[2]) }

Echoes(sc, req) == IF Faulty(sc) THEN {req} \cup BadEchoes(req) ELSE {req}

\* What the line carries back after `req` was written: the echo and,
\* for a read request, the reply.
Exchanges(sc, req) ==
    IF Len(req) = ReadRequest_LEN
    THEN { e \o r : e \in Echoes(sc, req), r \in Replies(sc, req[3]) }
    ELSE Echoes(sc, req)

\* One received byte changed to another value.
Corruptions(bytes) ==
    { [bytes EXCEPT ![p] = v] : p \in 1..Len(bytes), v \in Byte } \ {bytes}

\* Bytes that may follow an exchange on the line: none, or two more that
\* would start a frame.
Surplus == { << >>, << SYNC, MASTER_ADDR >> }

Lines(sc, req) ==
    IF sc = "device" THEN Echoes(sc, req)
    ELSE IF sc = "corrupt"
    THEN UNION { Corruptions(x) : x \in Exchanges(sc, req) }
    ELSE IF sc = "surplus"
    THEN { x \o s : x \in Exchanges(sc, req), s \in Surplus }
    ELSE Exchanges(sc, req)

UartErrors == 1..MaxUartErr

\* The scenarios in which a transport call may fail or a read return 0 bytes.
Failing(sc) == Faulty(sc) \/ sc = "device"

\* Results the transport may give to write_all and to flush.
SinkOutcomes(sc) ==
    {IoOk(<< >>)} \cup (IF Failing(sc) THEN {IoErr(e) : e \in UartErrors} ELSE {})

\* Results the transport may give to read(buf) with Len(buf) = want while
\* `pending` is on the line: an error, nothing, or the next 1..want bytes.
ReadOutcomes(sc, pending, want) ==
    LET most == Min(want, Len(pending))
        sizes == IF Faulty(sc) THEN 1..most ELSE {most} \ {0}
    IN  { IoOk(SubSeq(pending, 1, k)) : k \in sizes }
        \cup (IF Failing(sc)
              THEN {IoOk(<< >>)} \cup {IoErr(e) : e \in UartErrors}
              ELSE {})

(***************************************************************************)
(* State                                                                   *)
(***************************************************************************)
VARIABLES
    scenario,    \* the environment's menus, fixed for a behaviour
    slave_addr,  \* Tmc2209.slave_addr
    reader,      \* Tmc2209.reader
    task,        \* the frame of the transaction in progress, or of the last one
    rx,          \* Tmc2209.uart: bytes received and not yet read
    line,        \* the bytes that were pending once the request was written
    calls,       \* the transport calls of the transaction, in order
    prev,        \* the transaction completed (echo scenario) or cancelled before
    panicked,    \* an assert! failed
    twin,        \* the async run of the lockstep product (SpecEquiv)
    probe,       \* the latest direct call of the parser or the codec
    method,      \* the frame of the convenience method in progress
    device       \* the TMC2209 at the other end of the line (SpecDevice)

vars == << scenario, slave_addr, reader, task, rx, line, calls, prev, panicked, twin,
          probe, method, device >>

Self == [slave_addr |-> slave_addr, reader |-> reader, task |-> task]

SetSelf(s) ==
    /\ slave_addr' = s.slave_addr
    /\ reader' = s.reader
    /\ task' = s.task

\* A transport call as logged: its kind, where the handler made it, the bytes
\* written, and its outcome (ok; a read of zero bytes; the error value).
Called(self, o) ==
    [op |-> PendingCall(self).op, at |-> self.task.pc,
     bytes |-> PendingCall(self).bytes,
     ok |-> o.kind = "Ok",
     empty |-> o.kind = "Ok" /\ PendingCall(self).op = "read" /\ Len(o.bytes) = 0,
     e |-> o.e]

NoPrev == [fn |-> "none", addr |-> 0, data |-> U32(0, 0), tag |-> "Pending"]

\* The lockstep product: the twin is a second driver running the async form
\* of every call the first runs in blocking form, given the same outcomes.
TwinInit(on) == [on |-> on, self |-> Tmc2209_new(0), calls |-> << >>]

\* The history scenario: the twin runs the same call as the first driver,
\* on a parser left as an earlier read left it.
Mirror == scenario = "history"

\* What the 8 bytes read as a reply by an earlier transaction may have been:
\* a valid response, one with a wrong checksum, one that came one byte or
\* four bytes late, silence with a sync byte at the end.
StaleReplies ==
    LET f == Frame(GCONF, DataMenu[2])
    IN  { f, [f EXCEPT ![8] = (f[8] + 1) % 256], << 0 >> \o SubSeq(f, 1, 7),
          Zeros(4) \o SubSeq(f, 1, 4), Zeros(7) \o << SYNC >> }

\* The parser as read_response left it after these replies.
StaleReaders ==
    { ResponseReader_new } \cup
    { feed(reset(ResponseReader_new), r).reader : r \in StaleReplies }

TwinCall(fn, a, v) ==
    IF ~twin.on THEN twin' = twin
    ELSE IF Mirror
    THEN \E rd \in StaleReaders :
            twin' = [twin EXCEPT
                        !.self = Invoke([twin.self EXCEPT !.reader = rd], fn, a, v),
                        !.calls = << >>]
    ELSE twin' = [twin EXCEPT !.self = Invoke(twin.self, AsyncOf(fn), a, v),
                              !.calls = << >>]

TwinDo(o) ==
    twin' = IF twin.on
            THEN [twin EXCEPT !.self = Step(twin.self, o),
                              !.calls = Append(twin.calls, Called(twin.self, o))]
            ELSE twin

TwinWaits == twin.on => twin.self.task.pc = task.pc

\* No direct call of the parser or the codec was made.
NoProbe ==
    [op |-> "none", given |-> << >>, before |-> ResponseReader_new,
     consumed |-> 0, result |-> None, clean |-> TRUE,
     fresh |-> ResponseReader_new, fresh_consumed |-> 0, fresh_result |-> None,
     streams |-> 0, data |-> U32(0, 0), addr |-> None, flags |-> << >>]

\* The registers the convenience methods read and write.
DeviceRegs == { as_u8(R) : R \in {"Gconf", "Sgthrs", "Chopconf", "Pwmconf"} }

\* What the device may hold when the caller begins: the values after power-on
\* (GCONF with pdn_disable, mstep_reg_select and multistep_filt), every bit
\* set, and a disabled driver (TOFF=0) with DIAG as index.
RegisterFiles ==
    LET File(gconf, sgthrs, chopconf, pwmconf) ==
            [a \in DeviceRegs |->
                CASE a = as_u8("Gconf") -> gconf
                  [] a = as_u8("Sgthrs") -> sgthrs
                  [] a = as_u8("Chopconf") -> chopconf
                  [] a = as_u8("Pwmconf") -> pwmconf]
    IN  { File(U32(0, 448), U32(0, 0), Chopconf_DEFAULT, Pwmconf_DEFAULT),
          File(U32(65535, 65535), U32(0, 255), U32(65535, 65535), U32(65535, 65535)),
          File(U32(0, 52), U32(0, 7), U32(4098, 33616), U32(49421, 36)) }

\* No device is modelled: the line's content is the scenario's.
NoDevice == [regs |-> << >>, answered |-> TRUE, heard |-> << >>]

Devices(sc) ==
    IF sc = "device"
    THEN { [regs |-> f, answered |-> TRUE, heard |-> << >>] : f \in RegisterFiles }
    ELSE { NoDevice }

InitWith(sc, on) ==
    /\ scenario = sc
    /\ slave_addr = 0
    /\ reader = ResponseReader_new
    /\ task = IdleTask
    /\ rx = << >>
    /\ line = << >>
    /\ calls = << >>
    /\ prev = NoPrev
    /\ panicked = FALSE
    /\ twin = TwinInit(on)
    /\ probe = NoProbe
    /\ method = NoOp
    /\ device \in Devices(sc)

Init == \E sc \in {"faults", "echo"} : InitWith(sc, FALSE)

\* The caller starts a transaction on a driver at rest.
Call ==
    /\ ~panicked
    /\ UNCHANGED probe
    /\ task.pc = "idle"
    /\ \E fn \in (IF twin.on /\ ~Mirror THEN BlockingFns
                  ELSE BlockingFns \cup AsyncFns) :
         \E a \in AddrArgs(scenario, fn) :
           \E v \in DataArgs(scenario, fn) :
              /\ SetSelf(Invoke(Self, fn, a, v))
              /\ TwinCall(fn, a, v)
    /\ calls' = << >>
    /\ line' = << >>
    /\ UNCHANGED << scenario, method, device, rx, prev, panicked >>

\* The scenarios in which the caller keeps the driver whatever a transaction
\* returned and left behind.
Kept(sc) == sc \in {"echo", "stale"}

\* The caller takes the result and keeps the driver.  Outside the scenarios
\* of Kept it does so on a clean link only, and reinitialises otherwise (New).
Return ==
    /\ ~panicked
    /\ UNCHANGED probe
    /\ task.pc = "returned"
    /\ TwinWaits
    /\ ~Kept(scenario) => (rx = << >> /\ reader = ResponseReader_new)
    /\ task' = IdleTask
    /\ calls' = << >>
    /\ line' = << >>
    /\ prev' = IF scenario = "echo"
               THEN [fn |-> task.fn, addr |-> task.addr, data |-> task.data,
                     tag |-> task.result.tag]
               ELSE NoPrev
    /\ twin' = [twin EXCEPT !.self.task = IdleTask, !.calls = << >>]
    /\ UNCHANGED << scenario, method, device, slave_addr, reader, rx, panicked >>

\* uart.write_all(request.as_bytes()): on success the line carries the echo
\* and the device's reply back.
UartWriteAll ==
    /\ ~panicked
    /\ UNCHANGED probe
    /\ task.pc = "write_all"
    /\ TwinWaits
    /\ \E o \in SinkOutcomes(scenario) :
         /\ SetSelf(Step(Self, o))
         /\ TwinDo(o)
         /\ calls' = Append(calls, Called(Self, o))
         /\ IF o.kind = "Ok"
            THEN \E x \in Lines(scenario, task.request) :
                    /\ line' = rx \o x
                    /\ rx' = rx \o x
            ELSE UNCHANGED << line, rx >>
    /\ UNCHANGED << scenario, method, device, prev, panicked >>

\* uart.flush()
UartFlush ==
    /\ ~panicked
    /\ UNCHANGED probe
    /\ task.pc = "flush"
    /\ TwinWaits
    /\ \E o \in SinkOutcomes(scenario) :
         /\ SetSelf(Step(Self, o))
         /\ TwinDo(o)
         /\ calls' = Append(calls, Called(Self, o))
    /\ UNCHANGED << scenario, method, device, rx, line, prev, panicked >>

\* uart.read(&mut buf[total_read..]) in read_exact
UartRead ==
    /\ ~panicked
    /\ UNCHANGED probe
    /\ task.pc \in {"echo", "response"}
    /\ TwinWaits
    /\ \E o \in ReadOutcomes(scenario, rx, PendingCall(Self).len) :
         /\ SetSelf(Step(Self, o))
         /\ TwinDo(o)
         /\ calls' = Append(calls, Called(Self, o))
         /\ rx' = SubSeq(rx, Len(o.bytes) + 1, Len(rx))
    /\ UNCHANGED << scenario, method, device, line, prev, panicked >>

\* set_slave_addr without the assertion.
SetSlaveAddr_unchecked ==
    /\ ~panicked
    /\ UNCHANGED probe
    /\ task.pc = "idle"
    /\ \E a \in SlaveArgs(scenario) :
         /\ slave_addr' = a
         /\ twin' = [twin EXCEPT !.self.slave_addr = IF twin.on THEN a ELSE @]
    /\ prev' = IF prev.tag = "Cancelled" THEN prev ELSE NoPrev
    /\ UNCHANGED << scenario, method, device, reader, task, rx, line, calls, panicked >>

\* Tmc2209::set_slave_addr(addr)
SetSlaveAddr ==
    /\ ~panicked
    /\ UNCHANGED probe
    /\ task.pc = "idle"
    /\ \E a \in SlaveArgs(scenario) :
         IF a <= SLAVE_ADDR_MAX
         THEN /\ slave_addr' = a
              /\ twin' = [twin EXCEPT !.self.slave_addr = IF twin.on THEN a ELSE @]
              /\ UNCHANGED panicked
         ELSE panicked' = TRUE /\ UNCHANGED << slave_addr, twin >>
    /\ prev' = IF prev.tag = "Cancelled" THEN prev ELSE NoPrev
    /\ UNCHANGED << scenario, method, device, reader, task, rx, line, calls >>

\* The caller reinitialises the link owner: release(), the pending bytes
\* drained, Tmc2209::new(uart, slave_addr).  An address above 3 is tried on
\* a driver at rest.
New ==
    /\ ~panicked
    /\ UNCHANGED probe
    /\ task.pc \in {"idle", "returned"}
    /\ TwinWaits
    /\ \E a \in (IF task.pc = "idle" THEN SlaveArgs(scenario)
                ELSE SlaveArgs(scenario) \cap (0..SLAVE_ADDR_MAX)) :
         IF a <= SLAVE_ADDR_MAX
         THEN /\ SetSelf(Tmc2209_new(a))
              /\ twin' = [TwinInit(twin.on) EXCEPT
                              !.self.slave_addr = IF twin.on THEN a ELSE @]
              /\ rx' = << >>
              /\ calls' = << >>
              /\ line' = << >>
              /\ prev' = NoPrev
              /\ UNCHANGED panicked
         ELSE /\ panicked' = TRUE
              /\ UNCHANGED << slave_addr, reader, task, twin, rx, calls, line, prev >>
    /\ UNCHANGED << scenario, method, device >>

\* Cancelling Cancel that also empties the receive queue.
Cancel_draining ==
    /\ ~panicked
    /\ UNCHANGED probe
    /\ scenario = "cancel"
    /\ task.fn \in AsyncFns
    /\ task.pc \in {"write_all", "flush", "echo", "response"}
    /\ prev.tag # "Cancelled"
    /\ task' = IdleTask
    /\ prev' = [fn |-> task.fn, addr |-> task.addr, data |-> task.data,
                tag |-> "Cancelled"]
    /\ calls' = << >>
    /\ line' = << >>
    /\ rx' = << >>
    /\ UNCHANGED << scenario, method, device, slave_addr, reader, panicked, twin >>

\* The caller drops the future of an async transaction at one of its await
\* points: no code of the driver runs, the transport keeps what it holds.
\* One cancellation is tried between two reinitialisations.
Cancel ==
    /\ ~panicked
    /\ UNCHANGED probe
    /\ scenario = "cancel"
    /\ task.fn \in AsyncFns
    /\ task.pc \in {"write_all", "flush", "echo", "response"}
    /\ prev.tag # "Cancelled"
    /\ task' = IdleTask
    /\ prev' = [fn |-> task.fn, addr |-> task.addr, data |-> task.data,
                tag |-> "Cancelled"]
    /\ calls' = << >>
    /\ line' = << >>
    /\ UNCHANGED << scenario, method, device, slave_addr, reader, rx, panicked, twin >>

(***************************************************************************)
(* The convenience methods on a device that stores what is written         *)
(***************************************************************************)
MaxOps == 2

\* The arguments the caller gives to a method.
MethodArgs(name) ==
    CASE name = "set_microsteps" -> { << "M16" >>, << "M1" >> }
      [] name \in {"set_enabled", "set_vsense", "set_interpolation"} ->
            { << TRUE >>, << FALSE >> }
      [] name \in {"enable_stealthchop", "enable_spreadcycle"} -> { << >> }
      [] name = "configure_stealthchop" ->
            { << 36, 14, TRUE, TRUE >>, << 255, 0, FALSE, FALSE >> }
      [] name = "configure_chopper" -> { << 3, 5, 0, 2 >>, << 255, 255, 255, 255 >> }
      [] name \in {"set_stall_threshold", "configure_stall_detection"} ->
            { << 100 >> }

\* The device has taken the request written to it, if one was.
Settled == device.answered \/ calls = << >> \/ ~calls[1].ok

\* The method starts the transaction o.next.
Start(o) ==
    /\ method' = o
    /\ SetSelf(Invoke(Self, o.next.fn, o.next.addr, o.next.data))
    /\ calls' = << >>
    /\ line' = << >>
    /\ device' = [device EXCEPT !.answered = FALSE]
    /\ UNCHANGED rx

\* The caller calls a convenience method on a driver at rest.
OpCall ==
    /\ scenario = "device"
    /\ method.pc = "idle"
    /\ method.count < MaxOps
    /\ task.pc = "idle"
    /\ \E name \in Methods :
         \E async \in (IF name \in AsyncMethods THEN BOOLEAN ELSE {FALSE}) :
           \E arg \in MethodArgs(name) :
              Start(Resume([method EXCEPT !.name = name, !.async = async, !.arg = arg,
                                      !.pc = "start"],
                           Pending))
    /\ UNCHANGED << scenario, prev, panicked, twin, probe >>

\* The transaction the method awaited has returned: the method goes on, to
\* its next transaction or to its return.
OpResume ==
    /\ scenario = "device"
    /\ method.pc \notin {"idle", "returned"}
    /\ task.pc = "returned"
    /\ Settled
    /\ LET done == [fn |-> task.fn, addr |-> task.addr, data |-> task.data,
                    result |-> task.result]
           o == Resume([method EXCEPT !.log = Append(@, done)], task.result)
       IN  IF o.pc = "returned"
           THEN /\ method' = o
                /\ task' = IdleTask
                /\ calls' = << >>
                /\ line' = << >>
                /\ UNCHANGED << slave_addr, reader, rx, device >>
           ELSE Start(o)
    /\ UNCHANGED << scenario, prev, panicked, twin, probe >>

\* The caller takes the method's result.
OpReturn ==
    /\ scenario = "device"
    /\ method.pc = "returned"
    /\ method' = [NoOp EXCEPT !.last = [name |-> method.name, async |-> method.async,
                                    arg |-> method.arg, tag |-> method.result.tag],
                          !.count = method.count + 1]
    /\ device' = [device EXCEPT !.heard = << >>]
    /\ UNCHANGED << scenario, slave_addr, reader, task, rx, line, calls, prev,
                    panicked, twin, probe >>

\* What the master receives when the device answers a read of register a
\* holding d: the response, or the response with its last byte changed on
\* the line.
DeviceReplies(a, d) ==
    { Frame(a, d), [Frame(a, d) EXCEPT ![8] = (@ + 1) % 256] }

\* The device takes the request that was written: it answers a read request
\* with the register's value and stores the data of a write request.
DeviceAnswers ==
    /\ scenario = "device"
    /\ ~Settled
    /\ LET req == calls[1].bytes
           a == BitAnd(req[3], ADDRESS_MASK)
           taken == [device EXCEPT !.answered = TRUE, !.heard = Append(@, req)]
       IN  IF Len(req) = ReadRequest_LEN
           THEN /\ \E reply \in DeviceReplies(a, device.regs[a]) :
                     /\ rx' = rx \o reply
                     /\ line' = line \o reply
                /\ device' = taken
           ELSE /\ device' = [taken EXCEPT !.regs[a] = from_be_bytes(SubSeq(req, 4, 7))]
                /\ UNCHANGED << rx, line >>
    /\ UNCHANGED << scenario, slave_addr, reader, task, calls, prev, panicked, twin,
                    probe, method >>

Next ==
    \/ Call
    \/ UartWriteAll
    \/ UartFlush
    \/ UartRead
    \/ Return
    \/ SetSlaveAddr
    \/ New

Spec == Init /\ [][Next]_vars

\* The kept-driver scenario: the echo is exact, the reply may be no valid
\* frame, and the caller goes on with the same driver after any result.
InitStale == InitWith("stale", FALSE)

SpecStale == InitStale /\ [][Next]_vars

\* The surplus scenario: the faults of the transport, and the line may carry
\* more bytes than the exchange.
InitSurplus == InitWith("surplus", FALSE)

SpecSurplus == InitSurplus /\ [][Next]_vars

\* The surplus scenario on a transport of which every call returns: a
\* handler suspended on a transport call is resumed.
SpecReturning ==
    /\ InitSurplus
    /\ [][Next]_vars
    /\ WF_vars(UartWriteAll)
    /\ WF_vars(UartFlush)
    /\ WF_vars(UartRead)

\* The history scenario: two drivers given the same calls and the same
\* transport outcomes, the second starting each transaction with the parser
\* in a state an earlier read may have left.
InitHistory == InitWith("history", TRUE)

SpecHistory == InitHistory /\ [][Next]_vars

\* The single-corruption scenario: an ideal exchange with one received byte
\* changed.
InitCorrupt == InitWith("corrupt", FALSE)

SpecCorrupt == InitCorrupt /\ [][Next]_vars

\* Async transactions that may be cancelled, on a transport that echoes and
\* answers correctly.
InitCancel == InitWith("cancel", FALSE)

NextCancel == Next \/ Cancel

SpecCancel == InitCancel /\ [][NextCancel]_vars

\* The device scenario: the caller calls up to MaxOps convenience methods;
\* transport calls may fail and reads may find nothing yet.
InitDevice == InitWith("device", FALSE)

NextDevice ==
    \/ OpCall
    \/ OpResume
    \/ OpReturn
    \/ DeviceAnswers
    \/ UartWriteAll
    \/ UartFlush
    \/ UartRead

SpecDevice == InitDevice /\ [][NextDevice]_vars

\* The lockstep product of the blocking and the async API.
InitEquiv == InitWith("faults", TRUE)

SpecEquiv == InitEquiv /\ [][Next]_vars

(***************************************************************************)
(* The parser driven directly: a caller owning a ResponseReader feeds it a  *)
(* byte stream in chunks of its choice and advances by the consumed count.  *)
(* Beside it runs a parser constructed anew at the latest reset, or when a  *)
(* stream arrives, and given the same chunks.                               *)
(***************************************************************************)
MaxJunk == 3

MaxStreams == 2

\* Values other than the sync byte.
JunkBytes == {0, MASTER_ADDR}

RECURSIVE Junk(_)
Junk(n) ==
    IF n = 0 THEN { << >> }
    ELSE { << b >> \o j : b \in JunkBytes, j \in Junk(n - 1) }

\* What precedes a response on the stream: bytes that are no sync byte, or a
\* sync byte not followed by the master address.
Prefixes ==
    UNION { Junk(n) : n \in 0..MaxJunk } \cup
    { << SYNC >>, << 0, SYNC >>, << SYNC, 0 >> }

\* Responses: 0x01020304 of GCONF, 0x0505FF05 of DRV_STATUS (sync and master
\* address values inside the payload), and one with a wrong checksum.
WrongCrc(f) == [f EXCEPT ![8] = (f[8] + 1) % 256]

ParserFrames ==
    { Frame(GCONF, DataMenu[2]), Frame(DRV_STATUS, U32(1285, 65285)),
      WrongCrc(Frame(GCONF, DataMenu[2])) }

Suffixes == { << >>, << 0 >> }

Streams == { p \o f \o s : p \in Prefixes, f \in ParserFrames, s \in Suffixes }

\* The streams tried on a parser that was used before.
StreamsAfterReset ==
    ParserFrames \cup
    { p \o Frame(DRV_STATUS, U32(1285, 65285)) :
        p \in { << SYNC >>, << 0, SYNC >>, << MASTER_ADDR, 0 >> } } \cup
    { WrongCrc(Frame(GCONF, DataMenu[2])) \o << 0 >> }

\* Streams of 1..MaxBurst valid responses back to back.
MaxBurst == 3

BurstFrames == { Frame(GCONF, DataMenu[2]), Frame(DRV_STATUS, U32(1285, 65285)) }

\* k responses, f and g in turn.
RECURSIVE Burst(_, _, _)
Burst(k, f, g) == IF k = 0 THEN << >> ELSE f \o Burst(k - 1, g, f)

Bursts ==
    { Burst(k, f, g) : k \in 1..MaxBurst, f \in BurstFrames, g \in BurstFrames }

\* The scenarios in which the parser is driven directly.
Parsing == scenario \in {"parser", "burst"}

\* The last call was a feed that returned a decode result.
Yielded == probe.op = "feed" /\ probe.result.tag # "None"

\* A stream arrives for a parser at cursor 0: a new parser, a used one that
\* was just reset, or one that has just returned a decode result, whatever
\* was left of the stream before.  probe.flags tells the third case.
ParserStream ==
    /\ Parsing
    /\ line = << >> \/ (scenario = "parser" /\ (probe.op = "reset" \/ Yielded))
    /\ reader.index = 0
    /\ probe.streams < MaxStreams
    /\ \E s \in (IF scenario = "burst" THEN Bursts
                 ELSE IF line = << >> THEN Streams ELSE StreamsAfterReset) :
         /\ line' = s
         /\ rx' = s
    /\ probe' = [NoProbe EXCEPT !.op = "stream", !.before = reader,
                                !.flags = << Yielded >>,
                                !.streams = probe.streams + 1]
    /\ UNCHANGED << scenario, method, device, slave_addr, reader, task, calls, prev, panicked, twin >>

\* reader.feed(chunk) on the next k bytes of the stream, k >= 0.
Fed(chunk, fed, ffed) ==
    /\ reader' = fed.reader
    /\ rx' = SubSeq(rx, fed.consumed + 1, Len(rx))
    /\ probe' = [op |-> "feed", given |-> chunk, before |-> reader,
                 consumed |-> fed.consumed, result |-> fed.result,
                 clean |-> probe.clean, fresh |-> ffed.reader,
                 fresh_consumed |-> ffed.consumed, fresh_result |-> ffed.result,
                 streams |-> probe.streams, data |-> probe.data,
                 addr |-> probe.addr, flags |-> probe.flags]

ParserFeed ==
    /\ Parsing
    /\ line # << >>
    /\ \E k \in 0..Len(rx) :
         Fed(SubSeq(rx, 1, k), feed(reader, SubSeq(rx, 1, k)),
             feed(probe.fresh, SubSeq(rx, 1, k)))
    /\ UNCHANGED << scenario, method, device, slave_addr, task, line, calls, prev, panicked, twin >>

\* reader.reset()
ParserReset ==
    /\ Parsing
    /\ line # << >>
    /\ reader' = reset(reader)
    /\ probe' = [NoProbe EXCEPT !.op = "reset", !.before = reader, !.clean = FALSE,
                                !.streams = probe.streams]
    /\ UNCHANGED << scenario, method, device, slave_addr, task, rx, line, calls, prev, panicked, twin >>

InitParser == InitWith("parser", FALSE)

NextParser == ParserStream \/ ParserFeed \/ ParserReset

SpecParser == InitParser /\ [][NextParser]_vars

\* The parser on the streams above and on bursts of responses.
InitBurst == InitParser \/ InitWith("burst", FALSE)

SpecBurst == InitBurst /\ [][NextParser]_vars

(***************************************************************************)
(* The codec applied directly: ReadResponse::from_bytes on 8-byte buffers   *)
(* and ReadResponse::from_slice on slices of any length, the input held in  *)
(* `line`.                                                                  *)
(***************************************************************************)
MaxTrail == 2

\* Well-formed responses.
CodecFrames ==
    { Frame(a, d) : a \in {GCONF, IHOLD_IRUN, DRV_STATUS},
                    d \in { DataMenu[i] : i \in DOMAIN DataMenu } \cup { U32(1285, 65285) } }

\* f with bit k of its 64 bits inverted, bit 0 the least significant bit of
\* the first byte.
FlipBit(f, k) == [f EXCEPT ![(k \div 8) + 1] = BitXor(f[(k \div 8) + 1], Pow2(k % 8))]

\* The bits of the first 7 bytes.
CheckedBits == 0..(8 * (ReadResponse_LEN - 1) - 1)

Flipped == { FlipBit(f, k) : f \in CodecFrames, k \in CheckedBits }

\* The payload of f behind a sync byte s and a master address m, with the
\* checksum of these 7 bytes or another value.
Framed(s, m, f, summed) ==
    LET b == << s, m >> \o SubSeq(f, 3, 7)
    IN  b \o << IF summed THEN compute(b) ELSE (compute(b) + 1) % 256 >>

Misframed ==
    { Framed(s, m, f, summed) :
        s \in {SYNC, 0, MASTER_ADDR}, m \in {MASTER_ADDR, 0, SYNC},
        f \in { Frame(GCONF, DataMenu[2]), Frame(DRV_STATUS, U32(1285, 65285)) },
        summed \in BOOLEAN }

\* Bytes after the 8th of a slice.
Trails == UNION { Junk(n) : n \in 0..MaxTrail }

CodecBuffers == CodecFrames \cup Flipped \cup Misframed

CodecSlices ==
    { SubSeq(b, 1, n) : b \in Misframed, n \in 0..(ReadResponse_LEN - 1) } \cup
    { b \o t : b \in CodecFrames \cup Misframed, t \in Trails }

InitCodec ==
    /\ scenario = "codec"
    /\ slave_addr = 0
    /\ reader = ResponseReader_new
    /\ task = IdleTask
    /\ rx = << >>
    /\ line \in CodecBuffers \cup CodecSlices
    /\ calls = << >>
    /\ prev = NoPrev
    /\ panicked = FALSE
    /\ twin = TwinInit(FALSE)
    /\ probe = NoProbe
    /\ method = NoOp
    /\ device \in Devices("codec")

\* ReadResponse::from_bytes(line)
CodecFromBytes ==
    /\ scenario = "codec"
    /\ probe.op = "none"
    /\ Len(line) = ReadResponse_LEN
    /\ probe' = [NoProbe EXCEPT !.op = "from_bytes", !.given = line,
                                !.result = from_bytes(line)]
    /\ UNCHANGED << scenario, method, device, slave_addr, reader, task, rx, line, calls, prev,
                    panicked, twin >>

\* ReadResponse::from_slice(&line)
CodecFromSlice ==
    /\ scenario = "codec"
    /\ probe.op = "none"
    /\ probe' = [NoProbe EXCEPT !.op = "from_slice", !.given = line,
                                !.consumed = from_slice_taken(line),
                                !.result = from_slice(line)]
    /\ UNCHANGED << scenario, method, device, slave_addr, reader, task, rx, line, calls, prev,
                    panicked, twin >>

NextCodec == CodecFromBytes \/ CodecFromSlice

SpecCodec == InitCodec /\ [][NextCodec]_vars

\* Every way of obtaining a ReadResponse: the decoders on an input, or a
\* ResponseReader fed a stream.
InitResponse == InitCodec \/ InitParser

NextResponse == NextCodec \/ NextParser

SpecResponse == InitResponse /\ [][NextResponse]_vars

(***************************************************************************)
(* The request constructors applied directly: the arguments are kept in     *)
(* probe.given (slave address, register byte) and probe.data, the bytes     *)
(* built (as_bytes) in `line`.                                              *)
(***************************************************************************)
\* 0x00000000, 0x01020304, 0xFFFFFFFF, 0x80000000, 0x0505FF05, 0x00000040
RequestData ==
    { DataMenu[i] : i \in DOMAIN DataMenu } \cup { U32(1285, 65285), U32(0, 64) }

RequestSlaves == 0..SLAVE_ADDR_MAX

Built(op, slave, reg, v, bytes) ==
    /\ line' = bytes
    /\ probe' = [NoProbe EXCEPT !.op = op, !.given = << slave, reg >>, !.data = v]
    /\ UNCHANGED << scenario, method, device, slave_addr, reader, task, rx, calls, prev, panicked, twin >>

\* WriteRequest::new(slave, a, v)
WriteNew ==
    /\ scenario = "request"
    /\ probe.op = "none"
    /\ \E slave \in RequestSlaves, a \in Address, v \in RequestData :
         Built("WriteRequest::new", slave, as_u8(a), v,
               WriteRequest_new(slave, as_u8(a), v))

\* WriteRequest::from_raw(slave, reg, v)
WriteFromRaw ==
    /\ scenario = "request"
    /\ probe.op = "none"
    /\ \E slave \in RequestSlaves, reg \in Byte, v \in RequestData :
         Built("WriteRequest::from_raw", slave, reg, v,
               WriteRequest_from_raw(slave, reg, v))

\* ReadRequest::new(slave, a)
ReadNew ==
    /\ scenario = "request"
    /\ probe.op = "none"
    /\ \E slave \in RequestSlaves, a \in Address :
         Built("ReadRequest::new", slave, as_u8(a), U32(0, 0),
               ReadRequest_new(slave, as_u8(a)))

\* ReadRequest::from_raw_addr(slave, reg)
ReadFromRawAddr ==
    /\ scenario = "request"
    /\ probe.op = "none"
    /\ \E slave \in RequestSlaves, reg \in Byte :
         Built("ReadRequest::from_raw_addr", slave, reg, U32(0, 0),
               ReadRequest_from_raw_addr(slave, reg))

InitRequest == InitWith("request", FALSE)

NextRequest == WriteNew \/ WriteFromRaw \/ ReadNew \/ ReadFromRawAddr

SpecRequest == InitRequest /\ [][NextRequest]_vars

(***************************************************************************)
(* The Address functions applied directly: the variant or byte given is    *)
(* kept in probe.addr / probe.given, the booleans returned in probe.flags.  *)
(***************************************************************************)
\* a.is_readable() and a.is_writable()
Classify ==
    /\ scenario = "address"
    /\ probe.op = "none"
    /\ \E a \in Address :
         probe' = [NoProbe EXCEPT !.op = "classify", !.addr = Some(a),
                                  !.given = << as_u8(a) >>,
                                  !.flags = << is_readable(a), is_writable(a) >>]
    /\ UNCHANGED << scenario, method, device, slave_addr, reader, task, rx, line, calls, prev,
                    panicked, twin >>

\* Address::from_u8(b)
FromU8 ==
    /\ scenario = "address"
    /\ probe.op = "none"
    /\ \E b \in Byte :
         probe' = [NoProbe EXCEPT !.op = "from_u8", !.given = << b >>,
                                  !.addr = from_u8(b)]
    /\ UNCHANGED << scenario, method, device, slave_addr, reader, task, rx, line, calls, prev,
                    panicked, twin >>

\* ReadResponse::from_bytes on a well-formed reply with address byte b, then
\* address() of the response.
ReplyAddress ==
    /\ scenario = "address"
    /\ probe.op = "none"
    /\ \E b \in Byte, d \in DataSet(NumData) :
         LET decoded(r) ==
                 probe' = [NoProbe EXCEPT
                              !.op = "address", !.given = Frame(b, d), !.result = r,
                              !.addr = IF r.tag = "Ok" THEN address(r.val) ELSE None]
         IN  decoded(from_bytes(Frame(b, d)))
    /\ UNCHANGED << scenario, method, device, slave_addr, reader, task, rx, line, calls, prev,
                    panicked, twin >>

InitAddress == InitWith("address", FALSE)

NextAddress == Classify \/ FromU8 \/ ReplyAddress

SpecAddress == InitAddress /\ [][NextAddress]_vars

\* The Address functions, and a driver whose raw transactions name a
\* register that is no Address.
InitUnknown == InitAddress \/ InitWith("unknown", FALSE)

NextUnknown ==
    \/ NextAddress
    \/ scenario = "unknown" /\ Call
    \/ scenario = "unknown" /\ Return
    \/ scenario = "unknown" /\ UartWriteAll
    \/ scenario = "unknown" /\ UartFlush
    \/ scenario = "unknown" /\ UartRead
    \/ scenario = "unknown" /\ SetSlaveAddr
    \/ scenario = "unknown" /\ New

SpecUnknown == InitUnknown /\ [][NextUnknown]_vars

(***************************************************************************)
(* Observations of a transaction                                            *)
(***************************************************************************)
Running == task.pc \in {"write_all", "flush", "echo", "response"}

Returned == task.pc = "returned"

Last(seq) == seq[Len(seq)]

\* Every transport call so far returned Ok and no read returned 0 bytes.
AllDelivered == \A i \in 1..Len(calls) : calls[i].ok /\ ~calls[i].empty

\* The received bytes the transaction has read so far.
Consumed == Len(line) - Len(rx)

RequestLen(fn) == IF fn \in ReadFns THEN ReadRequest_LEN ELSE WriteRequest_LEN

EchoLen(fn) == RequestLen(fn)

\* The received bytes a transaction reads when nothing fails.
Budget(fn) == IF fn \in ReadFns THEN EchoLen(fn) + ReadResponse_LEN ELSE EchoLen(fn)

\* The echo and the reply as the line delivered them.
EchoOf(fn) == SubSeq(line, 1, EchoLen(fn))

Reply == SubSeq(line, ReadRequest_LEN + 1, ReadRequest_LEN + ReadResponse_LEN)

\* Position of a transport call in the protocol.
Rank(at) ==
    CASE at = "write_all" -> 1 [] at = "flush" -> 2
      [] at = "echo" -> 3 [] at = "response" -> 4

(***************************************************************************)
(* Protocol order                                                           *)
(***************************************************************************)
\* C1: within a transaction the transport calls are, in this order, one
\* write_all of the whole request (4 bytes for a read, 8 for a write), one
\* flush, the reads of the echo and, for a read transaction only, the reads
\* of the reply; each call is made only after the one before it returned
\* successfully; the echo has been read whole when the first read of the
\* reply is made, and a result that rests on the address check (Ok or
\* AddressMismatch of a read) comes only after all 12 bytes were read.
ProtocolOrder ==
    /\ \A i \in 1..Len(calls) :
          /\ i < Len(calls) => (calls[i].ok /\ ~calls[i].empty)
          /\ (i = 1) <=> (calls[i].at = "write_all")
          /\ (i = 2) <=> (calls[i].at = "flush")
          /\ i > 2 => calls[i].op = "read"
          /\ i > 1 => Rank(calls[i - 1].at) <= Rank(calls[i].at)
          /\ calls[i].at = "response" => task.fn \in ReadFns
          /\ calls[i].at = "write_all" =>
                /\ calls[i].op = "write_all"
                /\ calls[i].bytes = task.request
                /\ Len(calls[i].bytes) = RequestLen(task.fn)
          /\ calls[i].at = "flush" => calls[i].op = "flush"
    /\ task.pc = "write_all" => calls = << >>
    /\ task.pc = "flush" => (Len(calls) = 1 /\ AllDelivered)
    /\ task.pc = "echo" =>
          (Len(calls) >= 2 /\ AllDelivered /\ Consumed < EchoLen(task.fn))
    /\ task.pc = "response" =>
          /\ Len(calls) >= 3 /\ AllDelivered
          /\ Consumed >= EchoLen(task.fn) /\ Consumed < Budget(task.fn)
          /\ (Consumed = EchoLen(task.fn)) <=> (Last(calls).at = "echo")
    /\ (Returned /\ task.result.tag \in {"Ok", "AddressMismatch"}) =>
          /\ AllDelivered
          /\ Consumed = Budget(task.fn)
          /\ Last(calls).at = (IF task.fn \in ReadFns THEN "response" ELSE "echo")

\* A raw async read that returned Ok after the echo and the reply each came
\* in more than one read.
ProtocolOrderWitness ==
    /\ Returned
    /\ task.fn = "read_raw_async"
    /\ task.result.tag = "Ok"
    /\ Len(calls) >= 6
    /\ calls[4].at = "echo"
    /\ calls[Len(calls) - 1].at = "response"

(***************************************************************************)
(* Results of a transaction                                                 *)
(***************************************************************************)
\* A reply that is well framed with a valid checksum.
WellFramed(reply) ==
    /\ Len(reply) = ReadResponse_LEN
    /\ reply[1] = SYNC
    /\ reply[2] = MASTER_ADDR
    /\ verify(reply)

\* The 32-bit big-endian payload of a reply.
Payload(reply) == U32(reply[4] * 256 + reply[5], reply[6] * 256 + reply[7])

\* The transaction read its whole echo and reply.
ReadThrough == Returned /\ AllDelivered /\ Consumed = Budget(task.fn)

TypedReads == {"read_register", "read_register_async"}

RawReads == {"read_raw", "read_raw_async"}

\* C2: read_register::<R> and read_register_async, given a well-framed reply
\* with a valid checksum, return AddressMismatch{expected: R's address,
\* actual: the reply's address byte} when that byte differs from R's
\* address, and Ok with the reply's 32-bit big-endian payload when it is equal.
TypedReadAddressCheck ==
    (task.fn \in TypedReads /\ ReadThrough /\ WellFramed(Reply)) =>
        IF Reply[3] # task.addr
        THEN /\ task.result.tag = "AddressMismatch"
             /\ task.result.expected = task.addr
             /\ task.result.actual = Reply[3]
        ELSE /\ task.result.tag = "Ok"
             /\ task.result.val = Payload(Reply)

\* read_register::<DRV_STATUS> answered by a valid reply for another register.
TypedReadAddressCheckWitness ==
    /\ task.fn = "read_register"
    /\ task.addr = DRV_STATUS
    /\ ReadThrough
    /\ WellFramed(Reply)
    /\ Reply[3] = GCONF
    /\ task.result.tag = "AddressMismatch"

\* C3: read_raw(reg_addr) and read_raw_async, given a well-framed reply with
\* a valid checksum whose address byte differs from reg_addr & 0x7F, return
\* AddressMismatch and not the payload.
RawReadAddressCheck ==
    (task.fn \in RawReads /\ ReadThrough /\ WellFramed(Reply)
        /\ Reply[3] # BitAnd(task.addr, ADDRESS_MASK)) =>
        task.result.tag = "AddressMismatch"

\* C4: a read that returns 0 bytes without an error is the last transport
\* call of its transaction, which returns NoResponse, whatever part of the
\* echo or of the reply the reads before it had delivered; the result
\* carries none of those bytes.
ZeroReadIsNoResponse ==
    \A i \in 1..Len(calls) :
        calls[i].empty =>
            /\ i = Len(calls)
            /\ calls[i].op = "read"
            /\ Returned
            /\ task.result.tag = "NoResponse"
            /\ task.buf = << >>

\* A read of 0 bytes after part of the reply had been read.
ZeroReadIsNoResponseWitness ==
    /\ Returned
    /\ calls # << >>
    /\ Last(calls).empty
    /\ Last(calls).at = "response"
    /\ Consumed > EchoLen(task.fn)
    /\ Consumed < Budget(task.fn)

\* C5: an error e of write_all, flush or read is the last transport call of
\* its transaction, whose result is Uart(e) with that same e.
TransportErrorPropagates ==
    \A i \in 1..Len(calls) :
        ~calls[i].ok =>
            /\ i = Len(calls)
            /\ Returned
            /\ task.result.tag = "Uart"
            /\ task.result.val = calls[i].e

\* The second error value, from a read of the reply.
TransportErrorPropagatesWitness ==
    /\ Returned
    /\ calls # << >>
    /\ ~Last(calls).ok
    /\ Last(calls).at = "response"
    /\ Last(calls).e = MaxUartErr
    /\ task.result.tag = "Uart"

\* C6: a transaction writes its request once at most, makes no transport
\* call after a call that failed or a read of 0 bytes, is over once its
\* last received byte was read (whatever the parse or the address check
\* made of it), and returns the failure to its caller.
NoRetry ==
    /\ Cardinality({ i \in 1..Len(calls) : calls[i].op = "write_all" }) <= 1
    /\ \A i \in 1..Len(calls) :
          (~calls[i].ok \/ calls[i].empty) =>
              (i = Len(calls) /\ Returned /\ task.result.tag \notin {"Ok", "Pending"})
    /\ Consumed <= Budget(task.fn)
    /\ (Running /\ calls # << >>) => Consumed < Budget(task.fn)
    /\ Running => task.result.tag = "Pending"
    /\ Returned => task.result.tag # "Pending"

\* A reply with a wrong checksum: CrcMismatch is returned after the 12th byte.
NoRetryWitness ==
    /\ Returned
    /\ task.result.tag = "CrcMismatch"
    /\ AllDelivered
    /\ Consumed = Budget(task.fn)

(***************************************************************************)
(* Corrupted bytes and the echo                                             *)
(***************************************************************************)
\* The exchange of the single-corruption scenario before a byte was changed.
IdealExchange == CHOOSE x \in Exchanges("corrupt", task.request) : TRUE

\* The position of the changed byte on the line.
CorruptedAt == CHOOSE p \in 1..Len(line) : line[p] # IdealExchange[p]

\* C7 as stated: with one received byte of an ideal exchange changed, echo
\* or reply, the transaction returns an error.
AnyCorruptionFails ==
    (scenario = "corrupt" /\ Returned) => task.result.tag # "Ok"

\* C7, amended: with one byte of the reply changed a read returns an error,
\* NoResponse for the sync and the master-address byte and CrcMismatch for
\* the six bytes after them; with one byte of the echo changed, a read and a
\* write return what the unchanged exchange returns, Ok.
ReplyCorruptionFails ==
    (scenario = "corrupt" /\ Returned) =>
        IF task.fn \in ReadFns /\ CorruptedAt > EchoLen(task.fn)
        THEN task.result.tag =
                 (IF CorruptedAt - EchoLen(task.fn) <= 2
                  THEN "NoResponse" ELSE "CrcMismatch")
        ELSE /\ task.result.tag = "Ok"
             /\ task.fn \in ReadFns =>
                    task.result.val = Payload(SubSeq(IdealExchange, 5, 12))

\* The address byte of the reply changed: the checksum catches it.
ReplyCorruptionFailsWitness ==
    /\ scenario = "corrupt"
    /\ Returned
    /\ task.fn = "read_register"
    /\ CorruptedAt = EchoLen(task.fn) + 3
    /\ task.result.tag = "CrcMismatch"

\* What a read transaction makes of a reply, from the reply alone.
Decode(fn, addr, r) ==
    IF r.tag = "None" THEN NoResponse
    ELSE IF r.tag # "Ok" THEN r
    ELSE IF fn \in TypedReads /\ r.val[3] # addr
         THEN AddressMismatch(addr, r.val[3])
    ELSE Ok(Payload(r.val))

ResultOfReply(fn, addr, reply) ==
    Decode(fn, addr, feed(ResponseReader_new, reply).result)

SameResult(a, b) ==
    /\ a.tag = b.tag
    /\ a.tag = "Ok" => a.val = b.val
    /\ a.tag = "Uart" => a.val = b.val
    /\ a.tag = "AddressMismatch" => (a.expected = b.expected /\ a.actual = b.actual)

\* C8: when the transport fails no call, a write returns Ok whatever the 8
\* bytes of the echo are, and a read returns a result fixed by the function,
\* the requested address and the 8 bytes of the reply, whatever the 4 bytes
\* of the echo are.
EchoIgnored ==
    (Returned /\ AllDelivered) =>
        IF task.fn \in WriteFns
        THEN task.result.tag = "Ok" /\ Consumed = EchoLen(task.fn)
        ELSE SameResult(task.result, ResultOfReply(task.fn, task.addr, Reply))

\* A write whose echo was a valid reply frame instead of the request.
EchoIgnoredWitness ==
    /\ Returned
    /\ task.fn = "write_register"
    /\ task.result.tag = "Ok"
    /\ EchoOf(task.fn) # task.request
    /\ WellFramed(EchoOf(task.fn))

\* C9: on a transport that echoes the request and answers a read with a
\* correctly checksummed reply for the requested register, every transaction
\* returns Ok, the one completed just before it returned Ok as well, a read
\* returns the payload of the reply, and no received byte is left on the
\* transport when a transaction has returned.
EchoTransportSucceeds ==
    scenario = "echo" =>
        /\ task.pc \in {"idle", "returned"} => rx = << >>
        /\ prev.tag \in {"Pending", "Ok"}
        /\ Returned =>
              /\ task.result.tag = "Ok"
              /\ EchoOf(task.fn) = task.request
              /\ task.fn \in ReadFns =>
                    /\ Reply[3] = BitAnd(task.addr, ADDRESS_MASK)
                    /\ task.result.val = Payload(Reply)

\* Slave 0: write_raw(0x6F, 0) and then read_raw(0x6F).
EchoTransportSucceedsWitness ==
    /\ scenario = "echo"
    /\ slave_addr = 0
    /\ prev = [fn |-> "write_raw", addr |-> DRV_STATUS, data |-> U32(0, 0),
               tag |-> "Ok"]
    /\ Returned
    /\ task.fn = "read_raw"
    /\ task.addr = DRV_STATUS
    /\ task.result.tag = "Ok"
    /\ rx = << >>

(***************************************************************************)
(* Blocking and async                                                       *)
(***************************************************************************)
\* C10: run on the same arguments and given the same transport outcomes,
\* the blocking and the async form of a transaction make the same transport
\* calls with the same arguments, wait on the same next call, return the
\* same result and hold the same driver state.
SameAlgorithm ==
    twin.on =>
        /\ twin.self.slave_addr = slave_addr
        /\ twin.self.reader = reader
        /\ twin.self.task.pc = task.pc
        /\ task.fn \in BlockingFns => twin.self.task.fn = AsyncOf(task.fn)
        /\ twin.self.task.request = task.request
        /\ twin.self.task.buf = task.buf
        /\ PendingCall(twin.self) = PendingCall(Self)
        /\ twin.calls = calls
        /\ SameResult(twin.self.task.result, task.result)

\* Both forms of the typed read returned AddressMismatch after the reply
\* came in pieces.
SameAlgorithmWitness ==
    /\ twin.on
    /\ Returned
    /\ task.fn = "read_register"
    /\ twin.self.task.fn = "read_register_async"
    /\ twin.self.task.pc = "returned"
    /\ task.result.tag = "AddressMismatch"
    /\ Len(calls) >= 6

(***************************************************************************)
(* Reads in pieces                                                          *)
(***************************************************************************)
\* The transaction fn(a, v) of a new driver up to its first read.
AfterFlush(fn, slave, a, v) ==
    Step(Step(Invoke(Tmc2209_new(slave), fn, a, v), IoOk(<< >>)), IoOk(<< >>))

\* The same transaction given the echo in one read and the reply in one read.
InOneReadEach(fn, slave, a, v, received) ==
    IF fn \in ReadFns
    THEN Step(Step(AfterFlush(fn, slave, a, v),
                   IoOk(SubSeq(received, 1, EchoLen(fn)))),
              IoOk(SubSeq(received, EchoLen(fn) + 1, Budget(fn))))
    ELSE Step(AfterFlush(fn, slave, a, v), IoOk(SubSeq(received, 1, EchoLen(fn))))

\* C11: when the bytes of the echo or of the reply arrive over several
\* reads of any positive sizes, the buffer read_exact fills holds at every
\* suspension exactly the bytes delivered so far, in order, the next read is
\* asked for the bytes still missing and no more, and the transaction
\* returns what it returns when each of the two arrives in one read.
FragmentsAccumulate ==
    /\ task.pc = "echo" =>
          /\ task.n = EchoLen(task.fn)
          /\ task.buf = SubSeq(line, 1, Consumed)
          /\ PendingCall(Self).len = EchoLen(task.fn) - Consumed
          /\ PendingCall(Self).len > 0
    /\ task.pc = "response" =>
          /\ task.n = ReadResponse_LEN
          /\ task.buf = SubSeq(line, EchoLen(task.fn) + 1, Consumed)
          /\ PendingCall(Self).len = Budget(task.fn) - Consumed
          /\ PendingCall(Self).len > 0
    /\ ReadThrough =>
          SameResult(task.result,
                     InOneReadEach(task.fn, slave_addr, task.addr, task.data,
                                   line).task.result)

\* A typed async read given its 12 bytes one per read.
FragmentsAccumulateWitness ==
    /\ ReadThrough
    /\ task.fn = "read_register_async"
    /\ task.result.tag = "Ok"
    /\ Len(calls) = 2 + Budget(task.fn)

(***************************************************************************)
(* Cancellation                                                             *)
(***************************************************************************)
\* The received bytes that were pending before the request was written.
StaleLen == Len(line) - Budget(task.fn)

\* A transaction that follows a cancelled one, once its request is written:
\* its own echo lies behind the stale bytes, it reads from the front of the
\* queue, and when it returns as many bytes are left as were stale.
StaleConsumed ==
    (scenario = "cancel" /\ prev.tag = "Cancelled" /\ calls # << >>) =>
        /\ StaleLen >= 0
        /\ SubSeq(line, StaleLen + 1, StaleLen + EchoLen(task.fn)) = task.request
        /\ rx = SubSeq(line, Consumed + 1, Len(line))
        /\ Returned =>
              /\ Consumed = Budget(task.fn)
              /\ Len(rx) = StaleLen
              /\ task.fn \in ReadFns =>
                    SameResult(task.result,
                               ResultOfReply(task.fn, task.addr, Reply))

\* C12: cancelling an async transaction at a suspension point changes
\* neither the receive queue nor the driver (no drain, no rollback), starting
\* the next transaction drains nothing, and that transaction takes the stale
\* bytes at the front of the queue as its own echo and reply.
CancelNoRollback ==
    /\ []StaleConsumed
    /\ [][(scenario = "cancel" /\ Running /\ task'.pc = "idle") =>
             (rx' = rx /\ reader' = reader /\ slave_addr' = slave_addr)]_vars
    /\ [][(scenario = "cancel" /\ task.pc = "idle" /\ task'.pc = "write_all") =>
             rx' = rx]_vars

\* read_register_async cancelled before its echo was read, then
\* read_register on the same register: it returns Ok with the payload of the
\* reply to the cancelled request and leaves its own 12 bytes pending.
CancelNoRollbackWitness ==
    /\ scenario = "cancel"
    /\ prev.tag = "Cancelled"
    /\ prev.fn = "read_register_async"
    /\ Returned
    /\ task.fn = "read_register"
    /\ StaleLen = Budget(task.fn)
    /\ task.result.tag = "Ok"
    /\ task.result.val = Payload(Reply)
    /\ task.result.val # Payload(SubSeq(line, StaleLen + 5, StaleLen + 12))
    /\ Len(rx) = Budget(task.fn)

(***************************************************************************)
(* Observations of the parser                                               *)
(***************************************************************************)
\* The position of the first sync byte of s, Len(s) + 1 if it has none.
FirstSync(s) ==
    IF \E i \in 1..Len(s) : s[i] = SYNC
    THEN CHOOSE i \in 1..Len(s) : s[i] = SYNC /\ \A j \in 1..(i - 1) : s[j] # SYNC
    ELSE Len(s) + 1

\* The 8 bytes of the stream after its first n.
FrameAfter(n) == SubSeq(line, n + 1, n + ReadResponse_LEN)

\* The stream is n bytes, then at least 8 more.
HoldsFrameAfter(n) == n + ReadResponse_LEN <= Len(line)

\* A feed call was made on a stream that met the parser at cursor 0, with no
\* reset since.
FedClean == scenario = "parser" /\ probe.op = "feed" /\ probe.clean

\* C13: a parser at cursor 0 given N bytes that are no sync byte and then a
\* valid response consumes N + 8 bytes in all, whatever the chunks, and the
\* feed that takes the last of them yields the response; while it is within
\* the N bytes it consumes every byte it is given, stays at cursor 0 and
\* leaves its buffer as it was.
ResyncSkipsJunk ==
    (/\ FedClean
     /\ HoldsFrameAfter(FirstSync(line) - 1)
     /\ WellFramed(FrameAfter(FirstSync(line) - 1)))
    => LET N == FirstSync(line) - 1
       IN  /\ Consumed <= N =>
                 /\ probe.consumed = Len(probe.given)
                 /\ reader.index = 0
                 /\ reader.buffer = probe.before.buffer
           /\ Consumed < N + ReadResponse_LEN => probe.result.tag = "None"
           /\ Consumed > N + ReadResponse_LEN =>
                 Consumed - probe.consumed >= N + ReadResponse_LEN
           /\ (Consumed = N + ReadResponse_LEN /\ probe.consumed > 0) =>
                 /\ probe.result.tag = "Ok"
                 /\ probe.result.val = FrameAfter(N)
                 /\ reader.index = 0
           /\ probe.result.tag # "None" => Consumed = N + ReadResponse_LEN

\* Junk bytes 0xFF, 0x00 before a response, met by a parser that was reset
\* two bytes into another frame; the feed that yields was given the second
\* junk byte and the 8 bytes of the response together.
ResyncSkipsJunkWitness ==
    /\ FedClean
    /\ probe.streams = 2
    /\ line[1] = MASTER_ADDR
    /\ FirstSync(line) = 3
    /\ probe.before.buffer[2] = MASTER_ADDR
    /\ probe.consumed = ReadResponse_LEN + 1
    /\ Consumed = 2 + ReadResponse_LEN
    /\ probe.result.tag = "Ok"
    /\ probe.result.val = FrameAfter(2)

\* The number of bytes before the second sync byte of the stream.
BeforeSecondSync ==
    FirstSync(line) + FirstSync(SubSeq(line, FirstSync(line) + 1, Len(line))) - 1

\* The first sync byte of the stream is not followed by the master address.
FalseSync ==
    /\ FirstSync(line) < Len(line)
    /\ line[FirstSync(line) + 1] # MASTER_ADDR

\* C14: a sync byte followed by another byte than the master address is
\* given up and that byte is examined again as a possible sync byte: a feed
\* entered at cursor 1 on such a byte does what a feed entered at cursor 0 on
\* the same input does, and a sync byte, then a valid response, yields the
\* response at its 8th byte however the stream is cut into feed calls.
FalseSyncRecovers ==
    /\ (/\ scenario = "parser"
        /\ probe.op = "feed"
        /\ probe.before.index = 1
        /\ probe.given # << >>
        /\ Head(probe.given) # MASTER_ADDR)
       => LET again == feed(reset(probe.before), probe.given)
          IN  /\ reader = again.reader
              /\ probe.consumed = again.consumed
              /\ probe.result = again.result
              /\ probe.consumed >= 1
    /\ (/\ FedClean
        /\ FalseSync
        /\ HoldsFrameAfter(BeforeSecondSync)
        /\ WellFramed(FrameAfter(BeforeSecondSync)))
       => LET N == BeforeSecondSync
          IN  /\ (Consumed >= FirstSync(line) /\ Consumed <= N + 1) =>
                    reader.index = IF line[Consumed] = SYNC THEN 1 ELSE 0
              /\ Consumed < N + ReadResponse_LEN => probe.result.tag = "None"
              /\ Consumed > N + ReadResponse_LEN =>
                    Consumed - probe.consumed >= N + ReadResponse_LEN
              /\ (Consumed = N + ReadResponse_LEN /\ probe.consumed > 0) =>
                    /\ probe.result.tag = "Ok"
                    /\ probe.result.val = FrameAfter(N)
              /\ probe.result.tag # "None" => Consumed = N + ReadResponse_LEN

\* A sync byte fed alone, then the 8 bytes of a response in one feed: that
\* feed is entered at cursor 1, meets the sync byte of the response and
\* yields the response.
FalseSyncRecoversWitness ==
    /\ FedClean
    /\ FalseSync
    /\ FirstSync(line) = 1
    /\ BeforeSecondSync = 1
    /\ probe.before.index = 1
    /\ probe.given # << >>
    /\ Head(probe.given) = SYNC
    /\ probe.consumed = ReadResponse_LEN
    /\ Consumed = 1 + ReadResponse_LEN
    /\ probe.result.tag = "Ok"
    /\ probe.result.val = FrameAfter(1)

\* C15: a valid response met at cursor 0 and cut into feed calls in any way
\* yields what it yields in one feed call: the calls before the one that
\* delivers the 8th byte consume all they are given, buffer it and return no
\* result; that call returns the response; 8 bytes are consumed in all.
FragmentationInvariant ==
    (/\ FedClean
     /\ HoldsFrameAfter(0)
     /\ WellFramed(FrameAfter(0)))
    => /\ Consumed < ReadResponse_LEN =>
             /\ probe.result.tag = "None"
             /\ probe.consumed = Len(probe.given)
             /\ reader.index = Consumed
             /\ \A i \in 1..Consumed : reader.buffer[i] = line[i]
       /\ (Consumed = ReadResponse_LEN /\ probe.consumed > 0) =>
             /\ probe.result = feed(ResponseReader_new, FrameAfter(0)).result
             /\ probe.result.tag = "Ok"
             /\ probe.result.val = FrameAfter(0)
             /\ probe.consumed = ReadResponse_LEN - probe.before.index
             /\ reader.index = 0
       /\ Consumed > ReadResponse_LEN =>
             Consumed - probe.consumed >= ReadResponse_LEN
       /\ probe.result.tag # "None" => Consumed = ReadResponse_LEN

\* A response whose 6th, 7th and 8th bytes arrive in the feed call that
\* yields it, the five before them in earlier calls.
FragmentationInvariantWitness ==
    /\ FedClean
    /\ Len(line) = ReadResponse_LEN
    /\ WellFramed(line)
    /\ probe.before.index = 5
    /\ Len(probe.given) = 3
    /\ Consumed = ReadResponse_LEN
    /\ probe.result.tag = "Ok"
    /\ probe.result.val = line

\* C16: feed consumes between 0 and all of the bytes it is given; given
\* none, in whichever of its three phases (cursor 0, cursor 1, cursor 2..7),
\* it returns (0, None) and leaves the cursor and the buffer as they were.
FeedConsumesWithinInput ==
    /\ (scenario = "parser" /\ probe.op = "feed") =>
          /\ probe.consumed \in 0..Len(probe.given)
          /\ probe.given = << >> =>
                /\ probe.consumed = 0
                /\ probe.result.tag = "None"
                /\ reader = probe.before
    /\ scenario = "parser" =>
          feed(reader, << >>) = [reader |-> reader, consumed |-> 0, result |-> None]

\* feed(&[]) on a parser holding the sync byte, the master address and three
\* more bytes of a response.
FeedConsumesWithinInputWitness ==
    /\ scenario = "parser"
    /\ probe.op = "feed"
    /\ probe.given = << >>
    /\ probe.before.index = 5
    /\ probe.before.buffer[3] = DRV_STATUS
    /\ reader.index = 5
    /\ probe.consumed = 0

\* C17: reset puts the cursor at 0 whatever it was and leaves the buffer as
\* it is; from then on the parser consumes the same counts, returns the same
\* results and reports the same cursor as a parser constructed at the moment
\* of the reset and fed the same chunks.
ResetIsFresh ==
    /\ (scenario = "parser" /\ probe.op = "reset") =>
          /\ reader.index = 0
          /\ reader.buffer = probe.before.buffer
    /\ (scenario = "parser" /\ probe.op = "feed") =>
          /\ probe.consumed = probe.fresh_consumed
          /\ probe.result = probe.fresh_result
          /\ reader.index = probe.fresh.index

\* A response with 05 FF 05 in its payload and a byte after it, the parser
\* reset after 4 of its bytes and the other 5 fed in one call: it and the
\* new parser both take the 05 FF of the payload for the start of a
\* response, consume the 5 bytes and wait at cursor 5.
ResetIsFreshWitness ==
    /\ scenario = "parser"
    /\ probe.op = "feed"
    /\ ~probe.clean
    /\ line = Frame(DRV_STATUS, U32(1285, 65285)) \o << 0 >>
    /\ rx = << >>
    /\ probe.consumed = 5
    /\ probe.fresh_consumed = 5
    /\ probe.before.index = 0
    /\ probe.before.buffer[3] = DRV_STATUS
    /\ reader.index = 5
    /\ probe.fresh.index = 5
    /\ probe.result.tag = "None"

(***************************************************************************)
(* Observations of the codec                                                *)
(***************************************************************************)
FromBytesCalled == scenario = "codec" /\ probe.op = "from_bytes"

\* C18: from_bytes reports the first failure of sync byte, master address,
\* checksum, in this order: InvalidSync for a wrong sync byte whatever the
\* other bytes, InvalidMasterAddress for a right sync byte and a wrong
\* master address whatever the checksum, and CrcMismatch only when both are
\* right.
DecodeOrder ==
    FromBytesCalled =>
       /\ probe.given[1] # SYNC => probe.result.tag = "InvalidSync"
       /\ (probe.given[1] = SYNC /\ probe.given[2] # MASTER_ADDR) =>
             probe.result.tag = "InvalidMasterAddress"
       /\ probe.result.tag = "CrcMismatch" =>
             /\ probe.given[1] = SYNC
             /\ probe.given[2] = MASTER_ADDR
             /\ ~verify(probe.given)
       /\ probe.result.tag = "Ok" =>
             /\ WellFramed(probe.given)
             /\ probe.result.val = probe.given

\* A buffer wrong in all three respects: sync byte 0x00, master address
\* 0x05 and a checksum that does not verify; InvalidSync is reported.
DecodeOrderWitness ==
    /\ FromBytesCalled
    /\ probe.given[1] = 0
    /\ probe.given[2] = SYNC
    /\ ~verify(probe.given)
    /\ probe.result.tag = "InvalidSync"

\* The buffer given to from_bytes is the well-formed response f with bit k
\* inverted and the checksum byte left as it was.
FlippedAt(f, k) == FromBytesCalled /\ probe.given = FlipBit(f, k)

\* C19 as stated: inverting any one of the 56 bits of the first 7 bytes of
\* a well-formed response makes from_bytes fail with CrcMismatch.
BitFlipIsCrcMismatch ==
    \A f \in CodecFrames : \A k \in CheckedBits :
        FlippedAt(f, k) => probe.result.tag = "CrcMismatch"

\* C19: inverting one bit of the first 7 bytes of a well-formed response
\* makes from_bytes fail: with InvalidSync for the 8 bits of the sync byte,
\* with InvalidMasterAddress for the 8 bits of the master address, and with
\* CrcMismatch for each of the 40 bits of the register address and the data.
BitFlipFails ==
    \A f \in CodecFrames : \A k \in CheckedBits :
        FlippedAt(f, k) =>
            probe.result.tag = IF k < 8 THEN "InvalidSync"
                               ELSE IF k < 16 THEN "InvalidMasterAddress"
                               ELSE "CrcMismatch"

\* The response of DRV_STATUS with the top bit of its register-address byte
\* inverted: CrcMismatch.
BitFlipFailsWitness ==
    /\ FlippedAt(Frame(DRV_STATUS, U32(1285, 65285)), 23)
    /\ probe.given[1] = SYNC
    /\ probe.given[2] = MASTER_ADDR
    /\ probe.given[3] = DRV_STATUS + 128
    /\ probe.result.tag = "CrcMismatch"

FromSliceCalled == scenario = "codec" /\ probe.op = "from_slice"

\* C20: from_slice of a slice of 0..7 elements returns BufferTooSmall having
\* read none of them; of a slice of 8 or more it reads the first 8 and
\* returns what from_bytes returns for these 8, whatever follows them.
SliceDecode ==
    FromSliceCalled =>
       /\ probe.consumed <= Len(probe.given)
       /\ Len(probe.given) < ReadResponse_LEN =>
             /\ probe.result.tag = "BufferTooSmall"
             /\ probe.consumed = 0
       /\ Len(probe.given) >= ReadResponse_LEN =>
             /\ probe.consumed = ReadResponse_LEN
             /\ probe.result = from_bytes(SubSeq(probe.given, 1, ReadResponse_LEN))
             /\ \A t \in Trails :
                   probe.result =
                       from_slice(SubSeq(probe.given, 1, ReadResponse_LEN) \o t)

\* A slice of 10 elements, a valid response followed by 0xFF 0x00: Ok with
\* the response, although its last 8 elements are no response.
SliceDecodeWitness ==
    /\ FromSliceCalled
    /\ Len(probe.given) = ReadResponse_LEN + 2
    /\ probe.given[ReadResponse_LEN + 1] = MASTER_ADDR
    /\ probe.given[ReadResponse_LEN + 2] = 0
    /\ probe.result.tag = "Ok"
    /\ probe.result.val = SubSeq(probe.given, 1, ReadResponse_LEN)
    /\ from_bytes(SubSeq(probe.given, 3, ReadResponse_LEN + 2)).tag # "Ok"

(***************************************************************************)
(* Observations of the request constructors                                 *)
(***************************************************************************)
WriteBuilt == scenario = "request" /\ probe.op \in {"WriteRequest::new", "WriteRequest::from_raw"}

\* C21: a write request is 8 bytes: the sync byte, the slave address, the
\* register address masked to 7 bits with the write flag 0x80 set whatever
\* bit 7 of the argument was, the data most significant byte first and the
\* checksum of the 7 bytes before it; slave_addr(), reg_addr() and data()
\* return the slave address, the 7-bit register address and the data.
WriteRoundTrip ==
    WriteBuilt =>
       /\ Len(line) = WriteRequest_LEN
       /\ line[1] = SYNC
       /\ line[2] = probe.given[1]
       /\ line[3] = (probe.given[2] % 128) + 128
       /\ line[4] * 256 + line[5] = probe.data.hi
       /\ line[6] * 256 + line[7] = probe.data.lo
       /\ \A i \in 4..7 : line[i] \in Byte
       /\ line[8] = compute(SubSeq(line, 1, 7))
       /\ WriteRequest_slave_addr(line) = probe.given[1]
       /\ WriteRequest_reg_addr(line) = probe.given[2] % 128
       /\ WriteRequest_data(line) = probe.data

\* from_raw(3, 0xEC, 0x01020304): the argument has bit 7 set; byte 2 is 0xEC
\* and reg_addr() is 0x6C.
WriteRoundTripWitness ==
    /\ WriteBuilt
    /\ probe.op = "WriteRequest::from_raw"
    /\ probe.given = << 3, 236 >>
    /\ probe.data = U32(258, 772)
    /\ SubSeq(line, 1, 7) = << 5, 3, 236, 1, 2, 3, 4 >>
    /\ WriteRequest_reg_addr(line) = 108
    /\ WriteRequest_data(line) = U32(258, 772)

ReadBuilt == scenario = "request" /\ probe.op \in {"ReadRequest::new", "ReadRequest::from_raw_addr"}

\* C22: a read request, built from an Address or from any raw byte, is the
\* 4 bytes sync, slave address, register address masked to 7 bits, checksum
\* of these three: bit 7 of byte 2 is never set and the checksum is the one
\* computed from the bytes of the request.
ReadNeverWrites ==
    ReadBuilt =>
       /\ Len(line) = ReadRequest_LEN
       /\ line[1] = SYNC
       /\ line[2] = probe.given[1]
       /\ line[3] = probe.given[2] % 128
       /\ line[3] < WRITE_BIT
       /\ Bit(line[3], 7) = 0
       /\ line[4] = compute(SubSeq(line, 1, 3))
       /\ ReadRequest_slave_addr(line) = probe.given[1]
       /\ ReadRequest_reg_addr(line) = probe.given[2] % 128

\* from_raw_addr(2, 0xEC): byte 2 of the request is 0x6C.
ReadNeverWritesWitness ==
    /\ ReadBuilt
    /\ probe.op = "ReadRequest::from_raw_addr"
    /\ probe.given = << 2, 236 >>
    /\ SubSeq(line, 1, 3) = << 5, 2, 108 >>
    /\ line[4] = compute(<< 5, 2, 108 >>)

\* A call that returns a Result<ReadResponse, _> (feed: an Option of one)
\* has returned.
Decoded ==
    \/ scenario = "codec" /\ probe.op \in {"from_bytes", "from_slice"}
    \/ scenario = "parser" /\ probe.op = "feed"

\* C23: a ReadResponse is obtained only through validate: whenever
\* from_bytes, from_slice or feed returns Ok, the response has the sync byte
\* in byte 0, 0xFF in byte 1 and a checksum that verifies (crc_valid), and it
\* is the 8 bytes that were given; an input that fails a check gives an error,
\* which carries no response.
ValidatedOnly ==
    Decoded =>
       /\ probe.result.tag \in {"Ok", "None", "InvalidSync", "InvalidMasterAddress",
                                "CrcMismatch", "BufferTooSmall"}
       /\ probe.result.tag = "Ok" =>
             /\ Len(probe.result.val) = ReadResponse_LEN
             /\ probe.result.val[1] = SYNC
             /\ probe.result.val[2] = MASTER_ADDR
             /\ crc_valid(probe.result.val)
             /\ scenario = "codec" =>
                   probe.result.val = SubSeq(probe.given, 1, ReadResponse_LEN)
             /\ scenario = "parser" => probe.result.val = reader.buffer
       /\ probe.result.tag # "Ok" => probe.result.val = 0
       /\ (scenario = "codec" /\ Len(probe.given) >= ReadResponse_LEN
             /\ ~WellFramed(SubSeq(probe.given, 1, ReadResponse_LEN))) =>
             probe.result.tag \in {"InvalidSync", "InvalidMasterAddress", "CrcMismatch"}

\* A parser that was reset inside one frame yields the next one: Ok with a
\* response for which crc_valid() is true.
ValidatedOnlyWitness ==
    /\ scenario = "parser"
    /\ probe.op = "feed"
    /\ probe.streams = 2
    /\ probe.result.tag = "Ok"
    /\ crc_valid(probe.result.val)
    /\ address(probe.result.val).tag = "Some"
    /\ address(probe.result.val).val = "DrvStatus"

(***************************************************************************)
(* Observations of the driver object                                        *)
(***************************************************************************)
\* C24: the slave address of the driver is in 0..3 in every reachable
\* state and is byte 1 of every request written; a call of new or
\* set_slave_addr that panics leaves the address as it was, and no step of a
\* transaction changes it.
SlaveAddrInRange ==
    /\ [](slave_addr \in 0..SLAVE_ADDR_MAX)
    /\ [](task.pc = "write_all" =>
             (task.request[2] = slave_addr /\ task.request[2] \in 0..3))
    /\ [](\A i \in 1..Len(calls) :
             calls[i].op = "write_all" => calls[i].bytes[2] = slave_addr)
    /\ [][(panicked' /\ ~panicked) => slave_addr' = slave_addr]_vars
    /\ [][(Running \/ Running') => slave_addr' = slave_addr]_vars

\* set_slave_addr(4) on a driver whose address is 3: the call panics and the
\* address is 3.
SlaveAddrInRangeWitness ==
    /\ scenario = "echo"
    /\ panicked
    /\ slave_addr = SLAVE_ADDR_MAX
    /\ task.pc = "idle"
    /\ prev.tag = "Pending"

(***************************************************************************)
(* Observations of the register addresses                                   *)
(***************************************************************************)
Classified == scenario = "address" /\ probe.op = "classify"

\* The access stated for each variant in the enumeration: "RW" and "R+WC"
\* (read, write to clear) registers.
ReadWrite == {"Gconf", "Gstat", "FactoryConf", "Chopconf", "Pwmconf"}

\* C25 as stated: every Address is readable or writable and none is both.
AddressesPartitioned ==
    Classified => /\ probe.flags[1] \/ probe.flags[2]
                  /\ ~(probe.flags[1] /\ probe.flags[2])

\* C25: every Address is readable or writable; the five read-write
\* registers GCONF, GSTAT, FACTORY_CONF, CHOPCONF and PWMCONF are both, every
\* other address is one of the two only.
AddressesCovered ==
    Classified => /\ probe.flags[1] \/ probe.flags[2]
                  /\ (probe.flags[1] /\ probe.flags[2]) <=> (probe.addr.val \in ReadWrite)

\* Gconf: is_readable() and is_writable() are both true.
AddressesCoveredWitness ==
    /\ Classified
    /\ probe.addr.val = "Gconf"
    /\ probe.flags = << TRUE, TRUE >>

\* The bytes that are the discriminant of an Address.
KnownCodes == { as_u8(a) : a \in Address }

\* C26: from_u8(b) is the Address with discriminant b for the 24 known
\* codes, all within 0x00..0x72, and None for every other byte, so
\* from_u8(a as u8) = a; a well-formed reply with an unknown address byte
\* decodes to Ok with address() = None; read_raw and write_raw on an unknown
\* register write the request with that register byte and return Ok like on
\* any other.
UnknownTolerated ==
    /\ (scenario = "address" /\ probe.op = "from_u8") =>
          /\ probe.addr.tag \in {"Some", "None"}
          /\ (probe.addr.tag = "Some") <=> (probe.given[1] \in KnownCodes)
          /\ probe.addr.tag = "Some" =>
                /\ probe.addr.val \in Address
                /\ as_u8(probe.addr.val) = probe.given[1]
                /\ probe.given[1] \in 0..114
    /\ Classified =>
          /\ from_u8(probe.given[1]).tag = "Some"
          /\ from_u8(probe.given[1]).val = probe.addr.val
    /\ (scenario = "address" /\ probe.op = "address") =>
          /\ probe.result.tag = "Ok"
          /\ (probe.addr.tag = "None") <=> (probe.given[3] \notin KnownCodes)
          /\ probe.addr.tag = "Some" => as_u8(probe.addr.val) = probe.given[3]
    /\ (scenario = "unknown" /\ task.addr = UNKNOWN_REG /\ task.fn \in RawReads) =>
          /\ task.pc = "write_all" =>
                SubSeq(task.request, 1, 3) = << SYNC, slave_addr, UNKNOWN_REG >>
          /\ (ReadThrough /\ WellFramed(Reply)) =>
                /\ task.result.tag = "Ok"
                /\ task.result.val = Payload(Reply)
    /\ (scenario = "unknown" /\ task.addr = UNKNOWN_REG
           /\ task.fn \in {"write_raw", "write_raw_async"}) =>
          /\ task.pc = "write_all" =>
                SubSeq(task.request, 1, 3) = << SYNC, slave_addr, UNKNOWN_REG + WRITE_BIT >>
          /\ (Returned /\ AllDelivered) => task.result.tag = "Ok"

\* read_raw(0x08) answered by a well-formed reply of register 0x08:
\* Ok with the payload, and address() of that reply is None.
UnknownToleratedWitness ==
    /\ scenario = "unknown"
    /\ task.fn = "read_raw"
    /\ task.addr = UNKNOWN_REG
    /\ ReadThrough
    /\ WellFramed(Reply)
    /\ Reply[3] = UNKNOWN_REG
    /\ address(Reply).tag = "None"
    /\ task.result.tag = "Ok"
    /\ task.result.val = DataMenu[2]

(***************************************************************************)
(* The register types driven directly: a register is built by new() and    *)
(* changed by its setters; probe.addr names the type, probe.data is the     *)
(* u32, probe.given the numeric getters and probe.flags the boolean ones.   *)
(***************************************************************************)
RegisterTypes == {"IholdIrun", "Chopconf", "Pwmconf"}

\* Values handed to the setters (u8 arguments).
RegisterArgs == {0, 1, 3, 255}

\* What the getters of type ty return on the register r.
RegisterGetters(ty, r) ==
    CASE ty = "IholdIrun" ->
             << IholdIrun_irun(r), IholdIrun_ihold(r), IholdIrun_iholddelay(r) >>
      [] ty = "Chopconf" ->
             << Chopconf_toff(r), Chopconf_hstrt(r), Chopconf_hend(r),
                Chopconf_tbl(r), Chopconf_mres(r) >>
      [] ty = "Pwmconf" ->
             << Pwmconf_pwm_ofs(r), Pwmconf_pwm_grad(r), Pwmconf_pwm_freq(r) >>

RegisterFlags(ty, r) ==
    IF ty = "Pwmconf"
    THEN << Pwmconf_pwm_autoscale(r), Pwmconf_pwm_autograd(r) >>
    ELSE << >>

Observed(op, ty, r) ==
    /\ probe' = [NoProbe EXCEPT !.op = op, !.addr = Some(ty), !.data = r,
                                !.given = RegisterGetters(ty, r),
                                !.flags = RegisterFlags(ty, r)]
    /\ UNCHANGED << scenario, method, device, slave_addr, reader, task, rx, line, calls, prev,
                    panicked, twin >>

Holds(ty) == probe.addr.tag = "Some" /\ probe.addr.val = ty

\* IholdIrun::new(), Chopconf::new(), Pwmconf::new()
RegisterNew ==
    /\ scenario = "register"
    /\ probe.op = "none"
    /\ \/ Observed("new", "IholdIrun", IholdIrun_new)
       \/ Observed("new", "Chopconf", Chopconf_new)
       \/ Observed("new", "Pwmconf", Pwmconf_new)

\* A setter of IholdIrun on the register held.
IholdIrunSet ==
    /\ scenario = "register"
    /\ Holds("IholdIrun")
    /\ \E v \in RegisterArgs :
         \/ Observed("set_ihold", "IholdIrun", IholdIrun_set_ihold(probe.data, v))
         \/ Observed("set_irun", "IholdIrun", IholdIrun_set_irun(probe.data, v))
         \/ Observed("set_iholddelay", "IholdIrun",
                     IholdIrun_set_iholddelay(probe.data, v))

\* A setter of Chopconf on the register held.
ChopconfSet ==
    /\ scenario = "register"
    /\ Holds("Chopconf")
    /\ \E v \in RegisterArgs :
         \/ Observed("set_toff", "Chopconf", Chopconf_set_toff(probe.data, v))
         \/ Observed("set_hstrt", "Chopconf", Chopconf_set_hstrt(probe.data, v))
         \/ Observed("set_hend", "Chopconf", Chopconf_set_hend(probe.data, v))
         \/ Observed("set_tbl", "Chopconf", Chopconf_set_tbl(probe.data, v))
         \/ Observed("set_mres", "Chopconf", Chopconf_set_mres(probe.data, v))

\* A setter of Pwmconf on the register held.
PwmconfSet ==
    /\ scenario = "register"
    /\ Holds("Pwmconf")
    /\ \E v \in RegisterArgs :
         \/ Observed("set_pwm_ofs", "Pwmconf", Pwmconf_set_pwm_ofs(probe.data, v))
         \/ Observed("set_pwm_grad", "Pwmconf", Pwmconf_set_pwm_grad(probe.data, v))
         \/ Observed("set_pwm_freq", "Pwmconf", Pwmconf_set_pwm_freq(probe.data, v))

InitRegister == InitWith("register", FALSE)

NextRegister ==
    \/ RegisterNew
    \/ IholdIrunSet
    \/ ChopconfSet
    \/ PwmconfSet

SpecRegister == InitRegister /\ [][NextRegister]_vars

\* The probe holds a register of type ty fresh from new().
Constructed(ty) == probe.op = "new" /\ Holds(ty)

\* C27: the default constructors yield the field values their documentation
\* states, read through the getters: IholdIrun::new() has IRUN=31, IHOLD=16,
\* IHOLDDELAY=1; Chopconf::new() has TOFF=3, HSTRT=4, HEND=1, TBL=2, MRES=0;
\* Pwmconf::new() has PWM_OFS=36, PWM_GRAD=14, pwm_freq=1, pwm_autoscale and
\* pwm_autograd set.
DefaultsAsDocumented ==
    /\ Constructed("IholdIrun") => probe.given = << 31, 16, 1 >>
    /\ Constructed("Chopconf") => probe.given = << 3, 4, 1, 2, 0 >>
    /\ Constructed("Pwmconf") =>
          probe.given = << 36, 14, 1 >> /\ probe.flags = << TRUE, TRUE >>


\* Where a parser at cursor 0 locks onto the stream: the first sync byte that
\* the master address follows.
FrameStart ==
    IF \E i \in 1..(Len(line) - 1) : line[i] = SYNC /\ line[i + 1] = MASTER_ADDR
    THEN CHOOSE i \in 1..(Len(line) - 1) :
             /\ line[i] = SYNC /\ line[i + 1] = MASTER_ADDR
             /\ \A j \in 1..(i - 1) : ~(line[j] = SYNC /\ line[j + 1] = MASTER_ADDR)
    ELSE Len(line) + 1

\* The position on the stream of the 8th byte of the frame.
FrameEnd == FrameStart + ReadResponse_LEN - 1

\* The last feed call was given the 8th byte of the frame.
GivenFrameEnd ==
    /\ FedClean
    /\ FrameEnd <= Len(line)
    /\ Consumed - probe.consumed < FrameEnd
    /\ FrameEnd <= Consumed - probe.consumed + Len(probe.given)

\* C28: the feed call that buffers the 8th byte of a frame returns the
\* result of decoding these 8 bytes and leaves the cursor at 0, whether the
\* decoding succeeds or the checksum fails; a checksum failure is returned
\* as CrcMismatch by that call, which consumes nothing after the 8th byte
\* and leaves the 8 bytes in the buffer; no other call returns a result; and
\* a stream fed after the result is parsed as by a parser constructed when
\* it arrives.
FrameCompletion ==
    /\ GivenFrameEnd =>
          LET frame == FrameAfter(FrameStart - 1)
          IN  /\ probe.result = from_bytes(frame)
              /\ probe.result.tag \in {"Ok", "CrcMismatch"}
              /\ ~verify(frame) => probe.result = CrcMismatch
              /\ verify(frame) => probe.result = Ok(frame)
              /\ reader.index = 0
              /\ reader.buffer = frame
              /\ Consumed = FrameEnd
    /\ (FedClean /\ probe.result.tag # "None") => GivenFrameEnd
    /\ (FedClean /\ probe.flags = << TRUE >>) =>
          /\ probe.consumed = probe.fresh_consumed
          /\ probe.result = probe.fresh_result
          /\ reader.index = probe.fresh.index

\* A response with a wrong checksum and a byte after it, its last 4 bytes and
\* that byte given in one call: CrcMismatch, 4 bytes consumed, the byte after
\* left unread, cursor 0; this on a parser that had returned a result before.
FrameCompletionWitness ==
    /\ GivenFrameEnd
    /\ probe.flags = << TRUE >>
    /\ line = WrongCrc(Frame(GCONF, DataMenu[2])) \o << 0 >>
    /\ probe.before.index = 4
    /\ Len(probe.given) = 5
    /\ rx = << 0 >>
    /\ probe.result = CrcMismatch
    /\ probe.consumed = 4
    /\ reader.index = 0

\* The last call was a feed entered while accumulating (cursor 2..7) with at
\* least one byte.
FedAccumulating ==
    /\ scenario = "parser"
    /\ probe.op = "feed"
    /\ probe.before.index \in 2..(ReadResponse_LEN - 1)
    /\ probe.given # << >>

\* C29: a feed entered at cursor 2..7 appends the bytes it is given to the
\* buffer unchanged, whatever their values, up to the 8th cell: it consumes
\* min(given, 8 - cursor) bytes, the cells already filled stay as they were,
\* the cursor grows by the bytes taken and is never put back inside the
\* frame, and no result (so no validation) is returned unless the 8th cell
\* was filled, in which case the result decodes the 8 cells.
AccumulatesVerbatim ==
    FedAccumulating =>
        LET at == probe.before.index
            taken == Min(Len(probe.given), ReadResponse_LEN - at)
        IN  /\ probe.consumed = taken
            /\ \A i \in 1..at : reader.buffer[i] = probe.before.buffer[i]
            /\ \A j \in 1..taken : reader.buffer[at + j] = probe.given[j]
            /\ \A i \in (at + taken + 1)..ReadResponse_LEN :
                   reader.buffer[i] = probe.before.buffer[i]
            /\ at + taken < ReadResponse_LEN =>
                   /\ reader.index = at + taken
                   /\ probe.result.tag = "None"
            /\ at + taken = ReadResponse_LEN =>
                   /\ reader.index = 0
                   /\ probe.result = from_bytes(reader.buffer)

\* The payload bytes 05 05 FF of a DRV_STATUS response given at cursor 3: all
\* three are buffered, the cursor is 6, nothing is returned.
AccumulatesVerbatimWitness ==
    /\ FedAccumulating
    /\ probe.before.index = 3
    /\ probe.given = << SYNC, SYNC, MASTER_ADDR >>
    /\ reader.index = 6
    /\ SubSeq(reader.buffer, 4, 6) = << SYNC, SYNC, MASTER_ADDR >>
    /\ probe.result.tag = "None"

\* A transaction is about to make its first transport call.
AtFirstCall == task.pc = "write_all"

\* C30 as stated: the parser cursor is 0 when a transaction, read or write,
\* blocking or async, begins its first transport call, whatever an earlier
\* transaction left in the parser.
CursorZeroAtStart == AtFirstCall => reader.index = 0

\* C30: the parser is reset on entry to read_response, after the echo was
\* read and before the first read of the reply: the cursor is 0 whenever a
\* read of the reply is pending, the step from the echo to the reply is a
\* reset of the parser, and no other step of a transaction before the reply
\* phase, hence no step of a write transaction, changes the parser.
ResetBeforeResponse ==
    /\ [](task.pc = "response" => reader.index = 0)
    /\ [][(task.pc = "echo" /\ task'.pc = "response") => reader' = reset(reader)]_vars
    /\ [][(Running /\ task.pc # "response" /\ task'.pc # "response")
             => reader' = reader]_vars

\* A read of the reply is pending on a driver whose earlier read left the
\* parser 7 bytes into a frame (a reply that came one byte late): the cursor
\* is 0, the 7 bytes are still in the buffer.
ResetBeforeResponseWitness ==
    /\ scenario = "stale"
    /\ task.pc = "response"
    /\ task.fn = "read_register"
    /\ reader.index = 0
    /\ reader.buffer = SubSeq(Frame(GCONF, DataMenu[2]), 1, 7) \o << 0 >>

(***************************************************************************)
(* Byte budget, error set, termination                                      *)
(***************************************************************************)
\* The bytes of the current step (echo or reply) still missing.
Missing == task.n - Len(task.buf)

\* A transaction that returned NoResponse from the parser, every read having
\* delivered bytes.
ParserNoResponse == Returned /\ task.result.tag = "NoResponse" /\ AllDelivered

\* C31: a read transaction takes exactly 4 echo bytes and then exactly 8
\* reply bytes from the transport, a write transaction exactly 8 echo bytes:
\* every read call asks for just the bytes still missing in its step, the
\* bytes taken are the first of the line in order, never more than 12 (read)
\* or 8 (write) are consumed whatever else the line holds, and a read that
\* ends with success, CrcMismatch, AddressMismatch or a NoResponse of the
\* parser has consumed exactly 12.
ExactByteBudget ==
    /\ (Running \/ Returned) => Consumed <= Budget(task.fn)
    /\ task.pc = "echo" =>
          /\ task.n = EchoLen(task.fn)
          /\ Consumed = Len(task.buf)
          /\ task.buf = SubSeq(line, 1, Consumed)
          /\ PendingCall(Self).len = Missing
          /\ Missing \in 1..task.n
    /\ task.pc = "response" =>
          /\ task.fn \in ReadFns
          /\ task.n = ReadResponse_LEN
          /\ Consumed = ReadRequest_LEN + Len(task.buf)
          /\ task.buf = SubSeq(line, ReadRequest_LEN + 1, Consumed)
          /\ PendingCall(Self).len = Missing
          /\ Missing \in 1..task.n
    /\ (Returned /\ task.fn \in ReadFns) =>
          /\ task.result.tag \in {"Ok", "CrcMismatch", "AddressMismatch"} =>
                Consumed = ReadRequest_LEN + ReadResponse_LEN
          /\ ParserNoResponse => Consumed = ReadRequest_LEN + ReadResponse_LEN
    /\ (Returned /\ task.fn \in WriteFns /\ task.result.tag = "Ok") =>
          Consumed = WriteRequest_LEN

\* A typed read whose reply came one byte late, in several reads, with two
\* more bytes behind it: NoResponse from the parser left 7 bytes into a
\* frame, 12 bytes consumed, the two bytes still on the transport.
ExactByteBudgetWitness ==
    /\ scenario = "surplus"
    /\ task.fn = "read_register"
    /\ ParserNoResponse
    /\ Len(calls) > 4
    /\ reader.index = 7
    /\ Consumed = 12
    /\ rx = << SYNC, MASTER_ADDR >>

\* The 8 reply bytes start with the sync byte and the master address.
ReplyFramed == Reply[1] = SYNC /\ Reply[2] = MASTER_ADDR

\* C32: a read transaction returns Ok or one of Uart, NoResponse,
\* CrcMismatch and, if typed, AddressMismatch; when all 12 bytes were read
\* and the 8 reply bytes do not start with the sync byte and the master
\* address, the parser has not completed and the result is NoResponse;
\* InvalidSync, InvalidMasterAddress and BufferTooSmall are never returned.
\* A write transaction returns Ok, Uart or NoResponse.
TransactionErrors ==
    Returned =>
        /\ task.result.tag \notin {"InvalidSync", "InvalidMasterAddress",
                                    "BufferTooSmall", "Pending", "None"}
        /\ task.fn \in ReadFns =>
              task.result.tag \in {"Ok", "Uart", "NoResponse", "CrcMismatch"} \cup
                  (IF task.fn \in TypedFns THEN {"AddressMismatch"} ELSE {})
        /\ task.fn \in WriteFns => task.result.tag \in {"Ok", "Uart", "NoResponse"}
        /\ (task.fn \in ReadFns /\ ReadThrough /\ ~ReplyFramed) =>
              task.result.tag = "NoResponse"
        /\ (task.fn \in ReadFns /\ ReadThrough /\ ReplyFramed) =>
              /\ task.result.tag # "NoResponse"
              /\ reader.index = 0

\* A raw read whose reply has 0x00 where the master address belongs, the
\* checksum right for the other 7 bytes: NoResponse after all 12 bytes.
TransactionErrorsWitness ==
    /\ Returned
    /\ task.fn = "read_raw"
    /\ ReadThrough
    /\ Reply[1] = SYNC
    /\ Reply[2] = 0
    /\ task.result.tag = "NoResponse"

(***************************************************************************)
(* Parser invariants                                                        *)
(***************************************************************************)
\* C33: after every return of feed or reset the cursor is in 0..7, a cursor
\* of 1 or more has the sync byte in the first cell of the buffer, a cursor
\* of 2 or more has the master address in the second, and the only decode
\* error feed returns is CrcMismatch.
ParserStateInvariant ==
    scenario = "parser" =>
        /\ reader.index \in 0..(ReadResponse_LEN - 1)
        /\ Len(reader.buffer) = ReadResponse_LEN
        /\ reader.index >= 1 => reader.buffer[1] = SYNC
        /\ reader.index >= 2 => reader.buffer[2] = MASTER_ADDR
        /\ probe.op = "feed" => probe.result.tag \in {"None", "Ok", "CrcMismatch"}
        /\ (probe.op = "feed" /\ probe.result.tag # "None") =>
              /\ reader.buffer[1] = SYNC
              /\ reader.buffer[2] = MASTER_ADDR

\* A parser reset inside a response and fed the rest: it locked onto the
\* 05 FF of the payload and holds 4 bytes.
ParserStateInvariantWitness ==
    /\ scenario = "parser"
    /\ probe.op = "feed"
    /\ ~probe.clean
    /\ probe.before.index = 0
    /\ reader.index = 4
    /\ reader.buffer[1] = SYNC
    /\ reader.buffer[2] = MASTER_ADDR
    /\ line = Frame(DRV_STATUS, U32(1285, 65285))

\* A feed call on a burst of responses that met the parser at cursor 0, with
\* no reset since.
FedBurst == scenario = "burst" /\ probe.op = "feed" /\ probe.clean

\* The bytes of the stream consumed before the last call.
ConsumedBefore == Consumed - probe.consumed

\* C34: feed returns no result only when it has consumed all it was given;
\* when it returns a result it has stopped right after the 8th byte of the
\* frame, which is the last 8 bytes consumed, and the rest of its input is
\* left to the caller; on k valid responses back to back, the caller feeding
\* the unconsumed rest again, the i-th result is the i-th response: a call
\* consumes up to the end of the response it is in and no further, and
\* returns that response exactly when it was given its last byte.
FeedResults ==
    /\ (Parsing /\ probe.op = "feed") =>
          /\ probe.result.tag = "None" => probe.consumed = Len(probe.given)
          /\ probe.result.tag # "None" =>
                /\ probe.consumed >= 1
                /\ Consumed >= ReadResponse_LEN
                /\ reader.buffer = SubSeq(line, Consumed - ReadResponse_LEN + 1, Consumed)
                /\ probe.result = from_bytes(reader.buffer)
                /\ reader.index = 0
                /\ rx = SubSeq(line, Consumed + 1, Len(line))
    /\ FedBurst =>
          LET room == ReadResponse_LEN - (ConsumedBefore % ReadResponse_LEN)
          IN  /\ probe.consumed = Min(Len(probe.given), room)
              /\ (probe.result.tag # "None") <=> (Len(probe.given) >= room)
              /\ reader.index = Consumed % ReadResponse_LEN
              /\ probe.result.tag # "None" =>
                    /\ Consumed % ReadResponse_LEN = 0
                    /\ probe.result =
                          Ok(SubSeq(line, Consumed - ReadResponse_LEN + 1, Consumed))

\* Three responses back to back, the second call given the 16 bytes that
\* were left by the first: it returns the second response, has consumed 8
\* bytes, and the third response is still unread.
FeedResultsWitness ==
    /\ FedBurst
    /\ line = Burst(3, Frame(GCONF, DataMenu[2]), Frame(DRV_STATUS, U32(1285, 65285)))
    /\ Len(probe.given) = 16
    /\ probe.consumed = 8
    /\ probe.result = Ok(Frame(DRV_STATUS, U32(1285, 65285)))
    /\ rx = Frame(GCONF, DataMenu[2])

(***************************************************************************)
(* Independence of the parser's history                                     *)
(***************************************************************************)
\* C35: two drivers that differ only in the cursor and the buffer of their
\* parsers when a transaction starts, given the same call and the same
\* transport outcomes, make the same transport calls, wait on the same next
\* call, hold the same bytes read, have cursor 0 while the reply is read,
\* and return the same result; after a read that took its whole reply the
\* cursors are the same again.
HistoryIndependent ==
    Mirror =>
        /\ twin.self.task.fn = task.fn
        /\ twin.self.task.pc = task.pc
        /\ twin.self.task.request = task.request
        /\ twin.self.task.buf = task.buf
        /\ PendingCall(twin.self) = PendingCall(Self)
        /\ twin.calls = calls
        /\ twin.self.task.result = task.result
        /\ task.pc = "response" => (reader.index = 0 /\ twin.self.reader.index = 0)
        /\ (Returned /\ task.fn \in ReadFns /\ ReadThrough) =>
              twin.self.reader.index = reader.index

\* An async typed read answered by silence (8 zero bytes, in several reads)
\* on a new driver and on one whose parser was 7 bytes into a frame: both
\* return NoResponse, the second parser still holding the old bytes.
HistoryIndependentWitness ==
    /\ Mirror
    /\ Returned
    /\ task.fn = "read_register_async"
    /\ ReadThrough
    /\ Len(calls) > 4
    /\ Reply = Zeros(8)
    /\ task.result.tag = "NoResponse"
    /\ twin.self.task.result.tag = "NoResponse"
    /\ reader.buffer = ZeroBuffer
    /\ twin.self.reader.buffer = SubSeq(Frame(GCONF, DataMenu[2]), 1, 7) \o << 0 >>


(***************************************************************************)
(* Termination                                                             *)
(***************************************************************************)
\* The transport calls of kind op the transaction has made.
CallsOf(op) == Cardinality({ i \in 1..Len(calls) : calls[i].op = op })

CallBudget ==
    /\ CallsOf("write_all") <= 1
    /\ CallsOf("flush") <= 1
    /\ CallsOf("read") <= Budget(task.fn)

\* A read call returns: the transaction ends with Uart on an error and with
\* NoResponse on 0 bytes; otherwise the buffer being filled grows, or it is
\* full and the handler goes on.
ReadProgress ==
    (task.pc \in {"echo", "response"} /\ Len(calls') = Len(calls) + 1) =>
        LET c == Last(calls') IN
        /\ c.op = "read"
        /\ ~c.ok => (task'.pc = "returned" /\ task'.result = Uart(c.e))
        /\ c.empty => (task'.pc = "returned" /\ task'.result = NoResponse)
        /\ (c.ok /\ ~c.empty) =>
              \/ task'.pc = task.pc /\ Len(task'.buf) > Len(task.buf)
                    /\ Len(task'.buf) < task.n
              \/ task'.pc # task.pc /\ task.pc = "echo"
                    /\ task'.pc \in {"response", "returned"}
              \/ task'.pc = "returned" /\ task.pc = "response"

\* C36: when every transport call returns, every transaction returns; each
\* read call fails, returns 0 bytes (NoResponse) or adds to the bytes
\* accumulated, and a transaction makes at most 1 write_all, 1 flush and 12
\* reads (a read) or 8 reads (a write).
TransactionTerminates ==
    /\ []CallBudget
    /\ [][ReadProgress]_vars
    /\ (Running ~> Returned)

\* A typed read that took its 12 bytes one by one: 14 transport calls.
TransactionTerminatesWitness ==
    /\ Returned
    /\ task.fn = "read_register"
    /\ task.result.tag = "Ok"
    /\ CallsOf("read") = 12
    /\ Len(calls) = 14

(***************************************************************************)
(* Convenience methods                                                     *)
(***************************************************************************)
ReadModifyWrites ==
    {"set_microsteps", "set_enabled", "set_vsense", "set_interpolation",
     "configure_chopper", "configure_stealthchop", "enable_stealthchop",
     "enable_spreadcycle"}

\* The register a read-modify-write method works on.
RegisterOf(name) ==
    CASE name \in {"enable_stealthchop", "enable_spreadcycle"} -> "Gconf"
      [] name = "configure_stealthchop" -> "Pwmconf"
      [] OTHER -> "Chopconf"

\* The bits of the fields a method is documented to set: MRES 27..24,
\* TOFF 3..0, VSENSE 17, INTPOL 28, TOFF/HSTRT/HEND/TBL 3..0, 6..4, 10..7,
\* 16..15, PWM_OFS/PWM_GRAD/autoscale/autograd 7..0, 15..8, 18, 19,
\* en_spreadcycle 2.
FieldBits(name) ==
    CASE name = "set_microsteps" -> 24..27
      [] name = "set_enabled" -> 0..3
      [] name = "set_vsense" -> {17}
      [] name = "set_interpolation" -> {28}
      [] name = "configure_chopper" -> (0..10) \cup {15, 16}
      [] name = "configure_stealthchop" -> (0..15) \cup {18, 19}
      [] name \in {"enable_stealthchop", "enable_spreadcycle"} -> {2}

\* (v >> i) & 1 of a u32
BitOf(v, i) == IF i < 16 THEN (v.lo \div (2^i)) % 2 ELSE (v.hi \div (2^(i - 16))) % 2

\* v and w are the same outside the bits of `bits`.
SameOutside(bits, v, w) == \A i \in (0..31) \ bits : BitOf(v, i) = BitOf(w, i)

\* The write requests the device has taken since the method was called.
WritesHeard == { i \in 1..Len(device.heard) : Len(device.heard[i]) = WriteRequest_LEN }

ReadOf(o) == IF o.async THEN "read_register_async" ELSE "read_register"
WriteOf(o) == IF o.async THEN "write_register_async" ELSE "write_register"

\* C37: a read-modify-write method first runs a read transaction on its
\* register; if that fails no write request is sent and the method returns
\* the read's error; if it succeeds the method runs a write transaction on
\* the same register whose value is the value read with only the bits of
\* the targeted fields changed, and returns its result.
ReadThenWrite ==
    method.name \in ReadModifyWrites =>
        LET log == method.log
            R == as_u8(RegisterOf(method.name))
            written(read, sent) == SameOutside(FieldBits(method.name), read, sent)
        IN  /\ method.pc = "read" =>
                  /\ log = << >>
                  /\ task.fn = ReadOf(method) /\ task.addr = R
                  /\ WritesHeard = {}
            /\ method.pc = "write" =>
                  /\ Len(log) = 1
                  /\ log[1].fn = ReadOf(method) /\ log[1].addr = R
                  /\ log[1].result.tag = "Ok"
                  /\ task.fn = WriteOf(method) /\ task.addr = R
                  /\ written(log[1].result.val, task.data)
                  /\ \A i \in WritesHeard :
                        device.heard[i] = WriteRequest_new(slave_addr, R, task.data)
            /\ method.pc = "returned" =>
                  /\ Len(log) \in 1..2
                  /\ log[1].fn = ReadOf(method) /\ log[1].addr = R
                  /\ Len(log) = 1 =>
                        /\ log[1].result.tag # "Ok"
                        /\ method.result = log[1].result
                        /\ WritesHeard = {}
                  /\ Len(log) = 2 =>
                        /\ log[1].result.tag = "Ok"
                        /\ log[2].fn = WriteOf(method) /\ log[2].addr = R
                        /\ written(log[1].result.val, log[2].data)
                        /\ method.result = log[2].result

\* set_microsteps(M16) on a CHOPCONF with every bit set: MRES alone changes.
ReadThenWriteWitness ==
    /\ method.pc = "returned"
    /\ method.name = "set_microsteps"
    /\ method.arg = << "M16" >>
    /\ method.result.tag = "Ok"
    /\ method.log[1].result.val = U32(65535, 65535)
    /\ method.log[2].data = U32(62719, 65535)
    /\ device.regs[as_u8("Chopconf")] = U32(62719, 65535)

\* The TOFF set_enabled(enabled) is to write, given the CHOPCONF read.
ToffFor(enabled, read) ==
    IF enabled THEN (IF Chopconf_toff(read) = 0 THEN 3 ELSE Chopconf_toff(read)) ELSE 0

\* The method before this one was set_enabled(false) and returned Ok.
AfterDisable ==
    /\ method.last.name = "set_enabled"
    /\ method.last.arg = << FALSE >>
    /\ method.last.tag = "Ok"

\* C38: set_enabled(true) writes CHOPCONF with TOFF=3 when the TOFF read was
\* 0 and with the TOFF read otherwise, set_enabled(false) writes TOFF=0; a
\* write transaction follows every successful read; and when set_enabled(true)
\* returns Ok right after set_enabled(false) returned Ok, the device holds
\* TOFF=3.
EnableWritesToff ==
    method.name = "set_enabled" =>
        LET log == method.log
            enabled == method.arg[1]
        IN  /\ method.pc = "write" =>
                  /\ task.fn = WriteOf(method)
                  /\ task.addr = as_u8("Chopconf")
                  /\ Chopconf_toff(task.data) = ToffFor(enabled, log[1].result.val)
            /\ (method.pc = "returned" /\ log[1].result.tag = "Ok") =>
                  /\ Len(log) = 2
                  /\ log[2].fn = WriteOf(method)
                  /\ Chopconf_toff(log[2].data) = ToffFor(enabled, log[1].result.val)
            /\ (method.pc = "returned" /\ method.result.tag = "Ok") =>
                  /\ device.regs[as_u8("Chopconf")] = log[2].data
                  /\ (enabled /\ AfterDisable) =>
                        Chopconf_toff(device.regs[as_u8("Chopconf")]) = 3

\* set_enabled(false) then set_enabled_async(true), both Ok, on a CHOPCONF
\* that had every bit set: TOFF went from 15 to 0 to 3.
EnableWritesToffWitness ==
    /\ method.pc = "returned"
    /\ method.name = "set_enabled"
    /\ method.async
    /\ method.arg = << TRUE >>
    /\ method.result.tag = "Ok"
    /\ AfterDisable
    /\ ~method.last.async
    /\ method.log[1].result.val = U32(65535, 65520)
    /\ device.regs[as_u8("Chopconf")] = U32(65535, 65523)

\* The three transactions of configure_stall_detection(threshold), given the
\* GCONF value read by the second: fn, register and data.
StallPlan(o, gconf) ==
    << [fn |-> WriteOf(o), addr |-> as_u8("Sgthrs"), data |-> U32(0, o.arg[1])],
       [fn |-> ReadOf(o), addr |-> as_u8("Gconf"), data |-> U32(0, 0)],
       [fn |-> WriteOf(o), addr |-> as_u8("Gconf"),
        data |-> [gconf EXCEPT !.lo = @ - ((@ \div 16) % 4) * 16]] >>

\* The transaction x is the k-th of the plan.
Planned(o, k, x, gconf) ==
    /\ x.fn = StallPlan(o, gconf)[k].fn
    /\ x.addr = StallPlan(o, gconf)[k].addr
    /\ x.data = StallPlan(o, gconf)[k].data

\* The requests of the first k transactions of the plan, as written.
PlannedRequests(o, k, gconf) ==
    [i \in 1..k |->
        IF i = 2 THEN ReadRequest_new(slave_addr, StallPlan(o, gconf)[i].addr)
        ELSE WriteRequest_new(slave_addr, StallPlan(o, gconf)[i].addr,
                              StallPlan(o, gconf)[i].data)]

\* The place in the plan of the transaction the method is suspended in.
Stage(pc) == CASE pc = "threshold" -> 1 [] pc = "read" -> 2 [] pc = "write" -> 3

StallSequence ==
    method.name = "configure_stall_detection" =>
        LET log == method.log
            n == Len(log)
            gconf == IF n >= 2 /\ log[2].result.tag = "Ok" THEN log[2].result.val
                     ELSE U32(0, 0)
            current == [fn |-> task.fn, addr |-> task.addr, data |-> task.data]
        IN  /\ n <= 3
            /\ \A k \in 1..n : Planned(method, k, log[k], gconf)
            /\ \A k \in 1..(n - 1) : log[k].result.tag = "Ok"
            /\ method.pc \in {"threshold", "read", "write"} =>
                  /\ n = Stage(method.pc) - 1
                  /\ n > 0 => log[n].result.tag = "Ok"
                  /\ Planned(method, n + 1, current, gconf)
                  /\ \E k \in {n, n + 1} :
                        device.heard = PlannedRequests(method, k, gconf)
            /\ method.pc = "returned" =>
                  /\ n >= 1
                  /\ method.result = log[n].result
                  /\ n < 3 => log[n].result.tag # "Ok"
                  /\ \E k \in {n - 1, n} :
                        device.heard = PlannedRequests(method, k, gconf)
            /\ (n >= 1 /\ log[1].result.tag = "Ok") =>
                  device.regs[as_u8("Sgthrs")] = U32(0, method.arg[1])

\* The method is resumed with a failed transaction: it returns that failure,
\* starts nothing and leaves the device as it is.
StallStops ==
    (/\ method.name = "configure_stall_detection"
     /\ method.pc \in {"threshold", "read", "write"}
     /\ task.pc = "returned"
     /\ task.result.tag # "Ok"
     /\ method' # method) =>
        /\ method'.pc = "returned"
        /\ method'.result = task.result
        /\ task'.pc = "idle"
        /\ device' = device
        /\ rx' = rx

\* C39: configure_stall_detection and its async form run, in this order, a
\* write of SGTHRS with the threshold, a read of GCONF and a write of GCONF;
\* a failure of any of them is returned and nothing is started after it;
\* SGTHRS, once written, stays written when the GCONF read or write fails.
StallDetectionSequence == []StallSequence /\ [][StallStops]_vars

\* configure_stall_detection_async(100) whose GCONF read failed on the
\* checksum: SGTHRS holds 100 (it held 255), GCONF is as it was.
StallDetectionSequenceWitness ==
    /\ method.pc = "returned"
    /\ method.name = "configure_stall_detection"
    /\ method.async
    /\ Len(method.log) = 2
    /\ method.log[1].result.tag = "Ok"
    /\ method.result.tag = "CrcMismatch"
    /\ method.last.name = "none"
    /\ device.regs[as_u8("Sgthrs")] = U32(0, 100)
    /\ device.regs[as_u8("Gconf")] = U32(65535, 65535)
====
